---------------------------- MODULE Spec2Model ----------------------------
(***************************************************************************)
(* A model of the PostgreSQL wire-protocol server emulator (pg_server.c,   *)
(* pg_protocol.c): the live-session table, the select loop's accept and    *)
(* per-client turn (one recv, one dispatch), the default handlers and the  *)
(* bytes they hand to send().  Sockets are modelled at byte level: a       *)
(* client writes whole frames, the kernel may return any non-empty prefix  *)
(* of the queued bytes to one recv().                                      *)
(***************************************************************************)
EXTENDS Integers, Sequences, FiniteSets, TLC

(***************************************************************************)
(* Bounds of the model.                                                    *)
(***************************************************************************)
MaxConn == 2          \* largest max_connections a run is configured with
MaxAccepts == 3       \* connections accepted in a run of several sessions
MaxTableWrites == 1   \* client write() calls in a run of several sessions
MaxWrites == 2        \* client write() calls in a run of one session
MaxSplitWrites == 1   \* client write() calls in a run with short reads
MaxShortReads == 1    \* recv() calls that return less than what is queued
MaxPending == 1       \* write() calls of a peer whose bytes wait in a receive queue
MaxSets == 2          \* pg_server_set_<slot>_callback calls in a run of registrations
MaxCalls == 1         \* direct calls of a handler in a run of handler calls
MaxQueryWrites == 3   \* client write() calls in a run of simple queries
MaxFaultWrites == 2   \* client write() calls in a run whose write() calls may fail
MaxStopAccepts == 2   \* connections accepted in a run that a signal stops
MaxSelects == 2       \* select() calls counted after pg_server_stop
MaxAuthCalls == 1     \* calls of pg_handle_password in a run of password checks
MaxBulk == 1          \* registrations of a whole handler table in a run
MaxReads == 1         \* calls of pg_read_message in a run

(***************************************************************************)
(* Environment values.                                                     *)
(***************************************************************************)
ServerPid == 1000                 \* getpid()
Secrets == {7, 9}                 \* values rand() may return
FDs == 1 .. (MaxConn + 1)         \* descriptors accept() may return
NULL == [null |-> TRUE]

BUFFER_SIZE == 8192

(***************************************************************************)
(* Message type bytes (libpq/protocol.h, pg_protocol.h).                   *)
(***************************************************************************)
PqMsg_Query == 81                   \* 'Q'
PqMsg_Parse == 80                   \* 'P'
PqMsg_Bind == 66                    \* 'B'
PqMsg_Execute == 69                 \* 'E'
PqMsg_Describe == 68                \* 'D'
PqMsg_Sync == 83                    \* 'S'
PqMsg_Terminate == 88               \* 'X'
PqMsg_AuthenticationRequest == 82   \* 'R'
PqMsg_ParameterStatus == 83         \* 'S'
PqMsg_BackendKeyData == 75          \* 'K'
PqMsg_ReadyForQuery == 90           \* 'Z'
PqMsg_EmptyQueryResponse == 73      \* 'I'
PqMsg_CommandComplete == 67         \* 'C'
PqMsg_ErrorResponse == 69           \* 'E'
PqMsg_NoData == 110                 \* 'n'
PqMsg_BindComplete == 50            \* '2'
PqMsg_ParseComplete == 49           \* '1'
AUTH_REQ_OK == 0
PG_TXN_IDLE == 73                      \* 'I'
PG_TXN_TRANSACTION == 84               \* 'T'
PG_TXN_FAILED == 69                    \* 'E'
PG_MSG_ERROR_RESPONSE == 69            \* 'E'
PG_MSG_READY_FOR_QUERY == 90           \* 'Z'
PG_MSG_ROW_DESCRIPTION == 84           \* 'T'
PG_MSG_DATA_ROW == 68                  \* 'D'
PG_MSG_COMMAND_COMPLETE == 67          \* 'C'
PG_ERR_SEVERITY == 83                  \* 'S'
PG_ERR_CODE == 67                      \* 'C'
PG_ERR_MESSAGE == 77                   \* 'M'

(***************************************************************************)
(* Bytes and big-endian words.                                             *)
(***************************************************************************)
\* htonl(n) laid out in memory: the four bytes of n, most significant first
htonl(n) ==
  << (n \div 16777216) % 256, (n \div 65536) % 256, (n \div 256) % 256, n % 256 >>

\* the big-endian 32-bit word stored at bytes i..i+3 (1-based) of b
ntohl(b, i) ==
  b[i] * 16777216 + b[i + 1] * 65536 + b[i + 2] * 256 + b[i + 3]

\* C string literals as bytes (without the terminating NUL)
S_server_version == <<115, 101, 114, 118, 101, 114, 95, 118, 101, 114, 115, 105, 111, 110>>
S_14_0 == <<49, 52, 46, 48>>
S_client_encoding == <<99, 108, 105, 101, 110, 116, 95, 101, 110, 99, 111, 100, 105, 110, 103>>
S_UTF8 == <<85, 84, 70, 56>>
S_server_encoding == <<115, 101, 114, 118, 101, 114, 95, 101, 110, 99, 111, 100, 105, 110, 103>>
S_DateStyle == <<68, 97, 116, 101, 83, 116, 121, 108, 101>>
S_ISO_MDY == <<73, 83, 79, 44, 32, 77, 68, 89>>
S_user == <<117, 115, 101, 114>>
S_database == <<100, 97, 116, 97, 98, 97, 115, 101>>
S_u == <<117>>
S_SELECT_1 == <<83, 69, 76, 69, 67, 84, 32, 49>>
S_ERROR == <<69, 82, 82, 79, 82>>
S_SELECT == <<83, 69, 76, 69, 67, 84>>
S_INSERT_word == <<73, 78, 83, 69, 82, 84>>
S_UPDATE_word == <<85, 80, 68, 65, 84, 69>>
S_DELETE_word == <<68, 69, 76, 69, 84, 69>>
S_CREATE_word == <<67, 82, 69, 65, 84, 69>>
S_DROP == <<68, 82, 79, 80>>
S_ALTER == <<65, 76, 84, 69, 82>>
S_id == <<105, 100>>
S_name == <<110, 97, 109, 101>>
S_value == <<118, 97, 108, 117, 101>>
S_1 == <<49>>
S_Row_1 == <<82, 111, 119, 32, 49>>
S_Value_1 == <<86, 97, 108, 117, 101, 32, 49>>
S_2 == <<50>>
S_Row_2 == <<82, 111, 119, 32, 50>>
S_Value_2 == <<86, 97, 108, 117, 101, 32, 50>>
S_SELECT_2 == <<83, 69, 76, 69, 67, 84, 32, 50>>
S_INSERT_0_1 == <<73, 78, 83, 69, 82, 84, 32, 48, 32, 49>>
S_UPDATE_1 == <<85, 80, 68, 65, 84, 69, 32, 49>>
S_DELETE_1 == <<68, 69, 76, 69, 84, 69, 32, 49>>
SQLSTATE_42601 == <<52, 50, 54, 48, 49>>
S_Unsupported_query_type == <<85, 110, 115, 117, 112, 112, 111, 114, 116, 101, 100, 32, 113, 117, 101, 114, 121, 32, 116, 121, 112, 101>>


(***************************************************************************)
(* Frames a client writes (PostgreSQLClient.java, PostgreSQLProtocolTester)*)
(***************************************************************************)
PROTOCOL_3_0 == 196608            \* 3 << 16
SSL_REQUEST_CODE == 80877103
CANCEL_REQUEST_CODE == 80877102
PqMsg_PasswordMessage == 112      \* 'p'
INT4OID == 23

F_SSLRequest == htonl(8) \o htonl(SSL_REQUEST_CODE)

F_CancelRequest(pid, key) ==
  htonl(16) \o htonl(CANCEL_REQUEST_CODE) \o htonl(pid) \o htonl(key)

\* user=u, database=u, then the empty-key terminator
StartupParams ==
  S_user \o <<0>> \o S_u \o <<0>> \o S_database \o <<0>> \o S_u \o <<0>> \o <<0>>

F_Startup == htonl(8 + Len(StartupParams)) \o htonl(PROTOCOL_3_0) \o StartupParams

\* a startup packet of protocol 2.0: the high 16 bits of the version are 2
F_StartupV2 == htonl(8 + Len(StartupParams)) \o htonl(2 * 65536) \o StartupParams

\* database=u alone, and user=u alone
NoUserParams == S_database \o <<0>> \o S_u \o <<0>> \o <<0>>
NoDatabaseParams == S_user \o <<0>> \o S_u \o <<0>> \o <<0>>
F_StartupNoUser == htonl(8 + Len(NoUserParams)) \o htonl(PROTOCOL_3_0) \o NoUserParams
F_StartupNoDatabase ==
  htonl(8 + Len(NoDatabaseParams)) \o htonl(PROTOCOL_3_0) \o NoDatabaseParams

Typed(type, payload) == <<type>> \o htonl(4 + Len(payload)) \o payload

F_Query == Typed(PqMsg_Query, S_SELECT_1 \o <<0>>)

\* Parse("s", "SELECT 1", {23})
F_Parse ==
  Typed(PqMsg_Parse, <<115, 0>> \o S_SELECT_1 \o <<0>> \o <<0, 1>> \o htonl(INT4OID))

\* Bind("", "s", {1}): one binary parameter, binary results
F_Bind ==
  Typed(PqMsg_Bind, <<0>> \o <<115, 0>> \o <<0, 1, 0, 1>> \o <<0, 1>>
                    \o htonl(4) \o htonl(1) \o <<0, 1, 0, 1>>)

\* Describe('P', "")
F_Describe == Typed(PqMsg_Describe, <<80, 0>>)

\* Describe('S', "s")
F_DescribeStatement == Typed(PqMsg_Describe, <<83, 115, 0>>)

\* Execute("", 0)
F_Execute == Typed(PqMsg_Execute, <<0>> \o htonl(0))

F_Sync == Typed(PqMsg_Sync, <<>>)
F_Terminate == Typed(PqMsg_Terminate, <<>>)
F_Password == Typed(PqMsg_PasswordMessage, S_u \o <<0>>)

\* one frame in a socket's receive queue: the not yet received bytes of the
\* frame, whether its first byte is still among them, and the write() call
\* that put it there
Frame(kind, bytes) == [kind |-> kind, bytes |-> bytes, whole |-> TRUE, write |-> 0]

SingleFrames ==
  { Frame("SSLRequest", F_SSLRequest), Frame("Startup", F_Startup),
    Frame("Query", F_Query), Frame("Parse", F_Parse), Frame("Bind", F_Bind),
    Frame("Describe", F_Describe), Frame("Execute", F_Execute),
    Frame("Sync", F_Sync), Frame("Terminate", F_Terminate),
    Frame("Password", F_Password) }
  \cup { Frame("CancelRequest", F_CancelRequest(ServerPid + 1, k)) : k \in Secrets }

\* testExtendedQuery: Parse, Bind, Describe, Execute, Sync written back to back
ExtendedBurst ==
  << Frame("Parse", F_Parse), Frame("Bind", F_Bind), Frame("Describe", F_Describe),
     Frame("Execute", F_Execute), Frame("Sync", F_Sync) >>

ClientWrites == { <<f>> : f \in SingleFrames } \cup { ExtendedBurst }

\* peers that write one frame, read the answer, and write the next
HappyStartup ==
  << << Frame("SSLRequest", F_SSLRequest) >>, << Frame("Startup", F_Startup) >>,
     << Frame("Query", F_Query) >> >>

BadVersion == << << Frame("StartupV2", F_StartupV2) >> >>
NoUser == << << Frame("StartupNoUser", F_StartupNoUser) >> >>
NoDatabase == << << Frame("StartupNoDatabase", F_StartupNoDatabase) >> >>

ExtendedSteps ==
  << << Frame("Startup", F_Startup) >>, << Frame("Parse", F_Parse) >>,
     << Frame("Bind", F_Bind) >>, << Frame("Describe", F_Describe) >>,
     << Frame("Execute", F_Execute) >>, << Frame("Sync", F_Sync) >> >>

ParseDescribeSync ==
  << << Frame("Startup", F_Startup) >>, << Frame("Parse", F_Parse) >>,
     << Frame("DescribeStatement", F_DescribeStatement) >>,
     << Frame("Sync", F_Sync) >> >>

\* simple queries, one for each first word pg_get_query_type knows, one in
\* lower case after a blank, and one it does not support
S_BEGIN == <<66, 69, 71, 73, 78>>
S_blank_begin == <<32, 98, 101, 103, 105, 110>>
S_COMMIT == <<67, 79, 77, 77, 73, 84>>
S_ROLLBACK == <<82, 79, 76, 76, 66, 65, 67, 75>>
S_INSERT == <<73, 78, 83, 69, 82, 84, 32, 73, 78, 84, 79, 32, 116, 32, 86, 65, 76, 85, 69, 83, 32, 40, 49, 41>>
S_UPDATE == <<85, 80, 68, 65, 84, 69, 32, 116, 32, 83, 69, 84, 32, 97, 32, 61, 32, 49>>
S_DELETE == <<68, 69, 76, 69, 84, 69, 32, 70, 82, 79, 77, 32, 116>>
S_CREATE == <<67, 82, 69, 65, 84, 69, 32, 84, 65, 66, 76, 69, 32, 116, 32, 40, 97, 32, 105, 110, 116, 41>>

F_QueryOf(text) == Typed(PqMsg_Query, text \o <<0>>)

QueryFrames ==
  { Frame("Query", F_Query), Frame("Begin", F_QueryOf(S_BEGIN)),
    Frame("begin", F_QueryOf(S_blank_begin)), Frame("Commit", F_QueryOf(S_COMMIT)),
    Frame("Rollback", F_QueryOf(S_ROLLBACK)), Frame("Insert", F_QueryOf(S_INSERT)),
    Frame("Update", F_QueryOf(S_UPDATE)), Frame("Delete", F_QueryOf(S_DELETE)),
    Frame("Create", F_QueryOf(S_CREATE)) }

\* what a peer writes after its startup in a run of simple queries
QueryWrites == { <<f>> : f \in QueryFrames \cup { Frame("Sync", F_Sync) } }

\* the startup a run of simple queries begins with
StartupFirst == << << Frame("Startup", F_Startup) >> >>

\* a peer that begins a transaction after its startup
BeginQuery ==
  << << Frame("Startup", F_Startup) >>, << Frame("Begin", F_QueryOf(S_BEGIN)) >> >>

\* a Query frame whose length word declares n bytes, whatever follows it
F_QueryLength(n) == << PqMsg_Query >> \o htonl(n) \o S_SELECT_1 \o <<0>>

\* a length word above any frame the server could hold
OverLength == 1073741824          \* 2^30

\* a startup, a frame of declared length 4, one of declared length 3 and one
\* of declared length 2^30
DeclaredLengths ==
  << << Frame("Startup", F_Startup) >>, << Frame("Sync", F_Sync) >>,
     << Frame("QueryLength3", F_QueryLength(3)) >>,
     << Frame("QueryLengthOver", F_QueryLength(OverLength)) >> >>

\* the scripts played to a server whose handlers are registered all at once
BulkScripts == { ParseDescribeSync, BeginQuery }

Scripts ==
  { HappyStartup, BadVersion, NoUser, NoDatabase, ParseDescribeSync, BeginQuery,
    DeclaredLengths }

\* every write() of every peer
AllWrites ==
  ClientWrites \cup QueryWrites
  \cup UNION { { script[k] : k \in 1 .. Len(script) } :
                script \in Scripts \cup { ExtendedSteps } }

(***************************************************************************)
(* Receive queues.                                                         *)
(***************************************************************************)
RECURSIVE Flat(_)
Flat(q) == IF q = <<>> THEN <<>> ELSE Head(q).bytes \o Flat(Tail(q))

\* the queue after recv() took its first n bytes
RECURSIVE Consume(_, _)
Consume(q, n) ==
  IF n = 0 \/ q = <<>> THEN q
  ELSE IF n >= Len(Head(q).bytes) THEN Consume(Tail(q), n - Len(Head(q).bytes))
  ELSE << [ Head(q) EXCEPT !.bytes = SubSeq(@, n + 1, Len(@)), !.whole = FALSE ] >>
       \o Tail(q)

\* the frames of q that recv() of n bytes returns from first to last byte
RECURSIVE WholeFrames(_, _)
WholeFrames(q, n) ==
  IF q = <<>> \/ n < Len(Head(q).bytes) THEN <<>>
  ELSE (IF Head(q).whole THEN << Head(q) >> ELSE <<>>)
       \o WholeFrames(Tail(q), n - Len(Head(q).bytes))

\* the write() calls that put the frames of q there
Pending(q) == Cardinality({ q[i].write : i \in 1 .. Len(q) })

Min(a, b) == IF a < b THEN a ELSE b

(***************************************************************************)
(* send(): the k-th send() call of a handler succeeds, returning the byte  *)
(* count, when k <= nok; from the first failing call on it returns -1.     *)
(***************************************************************************)
send(buf, n, k, nok) == IF k <= nok THEN n ELSE -1

\* the first n bytes of a buffer, as send(fd, buf, n, 0) reads them
Bytes(buf, n) == SubSeq(buf, 1, n)

\* what a handler did: the byte strings it handed to send(), in order, and
\* its return value
Did(calls, ret) == [calls |-> calls, ret |-> ret]

(***************************************************************************)
(* pg_server_send_startup_messages                                         *)
(***************************************************************************)
auth_ok == <<PqMsg_AuthenticationRequest, 0, 0, 0, 8, 0, 0, 0, 0>>

params ==
  << <<S_server_version, S_14_0>>, <<S_client_encoding, S_UTF8>>,
     <<S_server_encoding, S_UTF8>>, <<S_DateStyle, S_ISO_MDY>> >>

\* the malloc'ed ParameterStatus message i and the len bytes of it sent
ParameterStatusMsg(i) ==
  LET name == params[i][1]
      value == params[i][2]
      len == 4 + 1 + Len(name) + 1 + Len(value) + 1
  IN  Bytes(<<PqMsg_ParameterStatus>> \o htonl(len - 1) \o name \o <<0>>
            \o value \o <<0>>, len)

key_data(client) ==
  <<PqMsg_BackendKeyData, 0, 0, 0, 12>> \o htonl(client.backend_pid)
  \o htonl(client.secret_key)

ready == <<PqMsg_ReadyForQuery, 0, 0, 0, 5, PG_TXN_IDLE>>

\* the frames in the order the helper sends them
StartupFrames(client) ==
  << Bytes(auth_ok, 9) >> \o [ i \in 1 .. 4 |-> ParameterStatusMsg(i) ]
  \o << Bytes(key_data(client), 13), Bytes(ready, 6) >>

\* a helper that ignores the result of its sends
pg_server_send_startup_messages_unchecked(client, nok) ==
  Did(StartupFrames(client), 0)

\* every send is checked: the first failure returns -1 at once
pg_server_send_startup_messages(client, nok) ==
  LET frames == StartupFrames(client)
  IN  IF nok >= Len(frames) THEN Did(frames, 0)
      ELSE Did(SubSeq(frames, 1, nok + 1), -1)

(***************************************************************************)
(* pg_default_startup_callback: the parameter loop over buffer + 8.  mem   *)
(* is the stack around the receive buffer: the bytes received, then        *)
(* whatever the stack holds; past mem a NUL is found.                      *)
(***************************************************************************)
RECURSIVE strlen(_, _)
strlen(mem, p) ==
  IF p + 1 > Len(mem) \/ mem[p + 1] = 0 THEN 0 ELSE 1 + strlen(mem, p + 1)

\* the C string at offset p
cstr(mem, p) == SubSeq(mem, p + 1, p + strlen(mem, p))

\* strdup of the C string at offset p: a pointer that is not NULL
strdup(mem, p) == [ null |-> FALSE, chars |-> cstr(mem, p) ]

\* st: user, database and whether a byte at or past buffer + length was read
RECURSIVE StartupLoop(_, _, _, _)
StartupLoop(mem, p, length, st) ==
  IF ~(p < length) THEN st
  ELSE LET param == p
           p1 == p + strlen(mem, p) + 1
           value == p1
           p2 == p1 + strlen(mem, p1) + 1
           oob == st.oob \/ p1 - 1 >= length \/ p2 - 1 >= length
       IN  IF mem[param + 1] = 0 THEN [ st EXCEPT !.oob = oob ]
           ELSE StartupLoop(mem, p2, length,
                  [ user |-> IF cstr(mem, param) = S_user
                             THEN strdup(mem, value) ELSE st.user,
                    database |-> IF cstr(mem, param) # S_user
                                    /\ cstr(mem, param) = S_database
                                 THEN strdup(mem, value) ELSE st.database,
                    oob |-> oob ])

\* the client record after the parameter loop
StartupParse(client, mem, length) ==
  LET st == StartupLoop(mem, 8, length,
              [ user |-> client.user, database |-> client.database, oob |-> FALSE ])
  IN  [ client EXCEPT !.user = st.user, !.database = st.database ]

StartupReadsOutOfBounds(client, mem, length) ==
  StartupLoop(mem, 8, length,
    [ user |-> client.user, database |-> client.database, oob |-> FALSE ]).oob

pg_default_startup_callback(client, nok) ==
  pg_server_send_startup_messages(client, nok)

(***************************************************************************)
(* The other default callbacks of pg_server.c.                             *)
(***************************************************************************)
empty_response == <<PqMsg_EmptyQueryResponse, 0, 0, 0, 4>>

\* a query handler that adds CommandComplete, as the execute handler does
pg_default_query_callback_with_complete(client, nok) ==
  IF send(empty_response, 5, 1, nok) < 0
  THEN Did(<< Bytes(empty_response, 5) >>, -1)
  ELSE Did(<< Bytes(empty_response, 5), <<67, 0, 0, 0, 5, 0>> >>,
           send(<<67, 0, 0, 0, 5, 0>>, 6, 2, nok))

pg_default_query_callback(client, nok) ==
  Did(<< Bytes(empty_response, 5) >>, send(empty_response, 5, 1, nok))

password_auth_ok ==
  <<PqMsg_AuthenticationRequest, 0, 0, 0, 8, 0, 0, 0, AUTH_REQ_OK>>

pg_default_password_callback(client, nok) ==
  Did(<< Bytes(password_auth_ok, 9) >>, send(password_auth_ok, 9, 1, nok))

pg_default_terminate_callback(client, nok) == Did(<<>>, 0)

pg_default_cancel_callback(client, nok) == Did(<<>>, 0)

reject_ssl == <<78>>   \* 'N'

pg_default_ssl_request_callback(client, nok) ==
  Did(<< Bytes(reject_ssl, 1) >>, send(reject_ssl, 1, 1, nok))

\* a handler of the application that reports an error and sends nothing
app_error_callback(client, nok) == Did(<<>>, -1)

\* a sync handler that answers as for an empty query first
pg_default_sync_callback_two_frames(client, nok) ==
  Did(<< Bytes(empty_response, 5), Bytes(ready, 6) >>,
      IF send(empty_response, 5, 1, nok) < 0 THEN -1 ELSE send(ready, 6, 2, nok))

pg_default_sync_callback(client, nok) ==
  Did(<< Bytes(ready, 6) >>, send(ready, 6, 1, nok))

no_data == <<PqMsg_NoData, 0, 0, 0, 4>>

pg_default_describe_callback(client, nok) ==
  Did(<< Bytes(no_data, 5) >>, send(no_data, 5, 1, nok))

bind_complete == <<PqMsg_BindComplete, 0, 0, 0, 4>>

pg_default_bind_callback(client, nok) ==
  Did(<< Bytes(bind_complete, 5) >>, send(bind_complete, 5, 1, nok))

command_complete == <<PqMsg_CommandComplete, 0, 0, 0, 5, 0>>

pg_default_execute_callback(client, nok) ==
  IF send(empty_response, 5, 1, nok) < 0
  THEN Did(<< Bytes(empty_response, 5) >>, -1)
  ELSE Did(<< Bytes(empty_response, 5), Bytes(command_complete, 6) >>,
           send(command_complete, 6, 2, nok))

parse_complete == <<PqMsg_ParseComplete, 0, 0, 0, 4>>

pg_default_parse_callback(client, nok) ==
  Did(<< Bytes(parse_complete, 5) >>, send(parse_complete, 5, 1, nok))

\* 'S' "ERROR", 'C' "42601", 'M' "Unknown message type", terminator
error_msg ==
  <<PqMsg_ErrorResponse, 0, 0, 0, 85,
    83, 69, 82, 82, 79, 82, 0,
    67, 52, 50, 54, 48, 49, 0,
    77, 85, 110, 107, 110, 111, 119, 110, 32,
    109, 101, 115, 115, 97, 103, 101, 32,
    116, 121, 112, 101, 0,
    0>>

pg_default_unknown_callback(client, nok) ==
  IF send(error_msg, Len(error_msg), 1, nok) < 0
  THEN Did(<< error_msg >>, -1)
  ELSE Did(<< error_msg, Bytes(ready, 6) >>, send(ready, 6, 2, nok))

(***************************************************************************)
(* pg_protocol.c: the encoders.  Each builds one message and hands it to   *)
(* write() once.                                                           *)
(***************************************************************************)
htons(n) == << (n \div 256) % 256, n % 256 >>

\* the total_length + 1 bytes pg_send_message hands to write()
pg_send_message(type, buffer, length) ==
  <<type>> \o htonl(length + 4) \o Bytes(buffer, length)

\* what pg_send_message returns when write() returned result
pg_send_message_result(message, result) ==
  IF result = Len(message) THEN 0 ELSE -1

pg_send_error(code, message) ==
  LET buffer == <<PG_ERR_SEVERITY>> \o S_ERROR \o <<0>>
                \o <<PG_ERR_CODE>> \o code \o <<0>>
                \o <<PG_ERR_MESSAGE>> \o message \o <<0>>
                \o <<0>>
  IN  pg_send_message(PG_MSG_ERROR_RESPONSE, buffer, Len(buffer))

pg_send_ready_for_query(status) ==
  pg_send_message(PG_MSG_READY_FOR_QUERY, <<status>>, 1)

\* the field descriptions from the i-th on: name, table OID, attribute
\* number, type OID, type size, type modifier, format code
RECURSIVE FieldDescriptions(_, _, _, _)
FieldDescriptions(i, num_fields, field_names, field_types) ==
  IF i > num_fields THEN <<>>
  ELSE field_names[i] \o <<0>> \o <<0, 0, 0, 0>> \o <<0, 0>>
       \o htonl(field_types[i]) \o <<0, 0>> \o <<0, 0, 0, 0>> \o <<0, 0>>
       \o FieldDescriptions(i + 1, num_fields, field_names, field_types)

pg_send_row_description(num_fields, field_names, field_types) ==
  LET buffer == htons(num_fields)
                \o FieldDescriptions(1, num_fields, field_names, field_types)
  IN  pg_send_message(PG_MSG_ROW_DESCRIPTION, buffer, Len(buffer))

RECURSIVE FieldValues(_, _, _, _)
FieldValues(i, num_fields, values, lengths) ==
  IF i > num_fields THEN <<>>
  ELSE htonl(lengths[i]) \o Bytes(values[i], lengths[i])
       \o FieldValues(i + 1, num_fields, values, lengths)

pg_send_data_row(num_fields, values, lengths) ==
  LET buffer == htons(num_fields) \o FieldValues(1, num_fields, values, lengths)
  IN  pg_send_message(PG_MSG_DATA_ROW, buffer, Len(buffer))

pg_send_command_complete(tag) ==
  pg_send_message(PG_MSG_COMMAND_COMPLETE, tag \o <<0>>, Len(tag) + 1)

(***************************************************************************)
(* pg_query.c: the query handler of a server linked with pg_query.c.  The  *)
(* handlers discard what the encoders return.                              *)
(***************************************************************************)
isspace(c) == c \in { 32, 9, 10, 11, 12, 13 }
toupper(c) == IF c >= 97 /\ c <= 122 THEN c - 32 ELSE c

RECURSIVE SkipSpace(_)
SkipSpace(query) ==
  IF query # <<>> /\ isspace(Head(query)) THEN SkipSpace(Tail(query)) ELSE query

\* the first word in upper case, 15 characters at most
RECURSIVE FirstWord(_, _)
FirstWord(query, i) ==
  IF query # <<>> /\ ~isspace(Head(query)) /\ i < 15
  THEN << toupper(Head(query)) >> \o FirstWord(Tail(query), i + 1)
  ELSE <<>>

pg_get_query_type(query) ==
  LET first_word == FirstWord(SkipSpace(query), 0)
  IN  IF first_word = S_SELECT THEN "QUERY_SELECT"
      ELSE IF first_word = S_INSERT_word THEN "QUERY_INSERT"
      ELSE IF first_word = S_UPDATE_word THEN "QUERY_UPDATE"
      ELSE IF first_word = S_DELETE_word THEN "QUERY_DELETE"
      ELSE IF first_word = S_BEGIN THEN "QUERY_BEGIN"
      ELSE IF first_word = S_COMMIT THEN "QUERY_COMMIT"
      ELSE IF first_word = S_ROLLBACK THEN "QUERY_ROLLBACK"
      ELSE IF first_word = S_CREATE_word THEN "QUERY_CREATE"
      ELSE IF first_word = S_DROP THEN "QUERY_DROP"
      ELSE IF first_word = S_ALTER THEN "QUERY_ALTER"
      ELSE "QUERY_UNKNOWN"

\* what a query handler did: the messages it handed to write(), in order,
\* its return value, and client->txn_status when it returns
QueryDid(calls, ret, txn_status) ==
  [ calls |-> calls, ret |-> ret, txn_status |-> txn_status ]

pg_handle_select(client) ==
  QueryDid(<< pg_send_row_description(3, << S_id, S_name, S_value >>, << 23, 25, 25 >>),
              pg_send_data_row(3, << S_1, S_Row_1, S_Value_1 >>, << 1, 5, 7 >>),
              pg_send_data_row(3, << S_2, S_Row_2, S_Value_2 >>, << 1, 5, 7 >>),
              pg_send_command_complete(S_SELECT_2),
              pg_send_ready_for_query(client.txn_status) >>,
           0, client.txn_status)

pg_handle_insert(client) ==
  QueryDid(<< pg_send_command_complete(S_INSERT_0_1),
              pg_send_ready_for_query(client.txn_status) >>,
           0, client.txn_status)

pg_handle_update(client) ==
  QueryDid(<< pg_send_command_complete(S_UPDATE_1),
              pg_send_ready_for_query(client.txn_status) >>,
           0, client.txn_status)

pg_handle_delete(client) ==
  QueryDid(<< pg_send_command_complete(S_DELETE_1),
              pg_send_ready_for_query(client.txn_status) >>,
           0, client.txn_status)

pg_handle_transaction(client, type) ==
  LET txn_status == IF type = "QUERY_BEGIN" THEN PG_TXN_TRANSACTION ELSE PG_TXN_IDLE
      tag == IF type = "QUERY_BEGIN" THEN S_BEGIN
             ELSE IF type = "QUERY_COMMIT" THEN S_COMMIT ELSE S_ROLLBACK
  IN  QueryDid(<< pg_send_command_complete(tag),
                  pg_send_ready_for_query(txn_status) >>,
               0, txn_status)

\* pg_default_query_callback of pg_query.c
pg_query_default_query_callback(client, query) ==
  LET type == pg_get_query_type(query)
  IN  IF type = "QUERY_SELECT" THEN pg_handle_select(client)
      ELSE IF type = "QUERY_INSERT" THEN pg_handle_insert(client)
      ELSE IF type = "QUERY_UPDATE" THEN pg_handle_update(client)
      ELSE IF type = "QUERY_DELETE" THEN pg_handle_delete(client)
      ELSE IF type \in { "QUERY_BEGIN", "QUERY_COMMIT", "QUERY_ROLLBACK" }
      THEN pg_handle_transaction(client, type)
      ELSE QueryDid(<< pg_send_error(SQLSTATE_42601, S_Unsupported_query_type),
                       pg_send_ready_for_query(client.txn_status) >>,
                    -1, client.txn_status)

(***************************************************************************)
(* State.                                                                  *)
(***************************************************************************)
VARIABLES
  max_connections,  \* server->config.max_connections
  clients,          \* server->clients: slot -> PGClientConn or NULL
  num_clients,      \* server->num_clients
  sock,             \* kernel side of each descriptor: open, rcvq, peer_closed
  wire,             \* per descriptor: what the successful send() calls delivered
  trace,            \* per descriptor: what the peer wrote and what was dispatched
  last,             \* the reactor's last step
  limits,           \* how far the environment goes in this run
  accepts,          \* accept() calls so far
  writes,           \* write() calls of the peers so far
  short_reads,      \* recv() calls so far that left queued bytes behind
  callbacks,        \* server->callbacks: slot -> the handler installed
  sets,             \* pg_server_set_<slot>_callback calls so far
  direct_calls,     \* direct calls of a handler so far
  running,          \* server->running
  server_fd,        \* server->server_fd: the listening socket, or -1
  run_pc,           \* where pg_server_run is: "while", "fd_set", "select",
                    \* "in_select", "serve", "returned", "aborted"
  stopped_selects   \* select() calls of pg_server_run since pg_server_stop

vars ==
  << max_connections, clients, num_clients, sock, wire, trace, last, limits,
     accepts, writes, short_reads, callbacks, sets, direct_calls,
     running, server_fd, run_pc, stopped_selects >>

\* the reactor's own state
reactor == << running, server_fd, run_pc, stopped_selects >>

\* the descriptor socket() gave pg_server_start
ListenFd == 0

\* the members of PGCallbacks and what pg_server_create puts in each
PGCallbacks ==
  [ startup |-> "pg_default_startup_callback",
    query |-> "pg_default_query_callback",
    password |-> "pg_default_password_callback",
    terminate |-> "pg_default_terminate_callback",
    sync |-> "pg_default_sync_callback",
    describe |-> "pg_default_describe_callback",
    bind |-> "pg_default_bind_callback",
    execute |-> "pg_default_execute_callback",
    parse |-> "pg_default_parse_callback",
    cancel |-> "pg_default_cancel_callback",
    ssl_request |-> "pg_default_ssl_request_callback",
    unknown |-> "pg_default_unknown_callback" ]

CallbackSlots == DOMAIN PGCallbacks

\* what an application passes to a setter: no handler, or a handler of its
\* own that reports an error
NoCallback == "NULL"
AppCallbacks == { "app_error_callback" }

Slots == 0 .. (max_connections - 1)

ClosedSock == [ open |-> FALSE, rcvq |-> <<>>, peer_closed |-> FALSE ]

NoTrace ==
  [ written |-> <<>>, dispatched |-> <<>>, aligned |-> TRUE,
    handshake |-> FALSE, queries |-> 0, syncs |-> 0, ready |-> 0 ]

NoStep == [ op |-> "none" ]

\* the slot holding the session of descriptor fd, or -1
SlotOf(fd) ==
  IF \E i \in Slots : clients[i] # NULL /\ clients[i].fd = fd
  THEN CHOOSE i \in Slots : clients[i] # NULL /\ clients[i].fd = fd
  ELSE -1

Live == { fd \in FDs : SlotOf(fd) # -1 }

\* one session, reads that take all that is queued
WireLimits ==
  [ accepts |-> 1, writes |-> MaxWrites, short_reads |-> 0, script |-> <<>>,
    frames |-> ClientWrites, sets |-> 0, settable |-> {}, calls |-> 0,
    build |-> "pg_server", faults |-> FALSE, stops |-> 0, auth_calls |-> 0,
    bulk |-> 0, reads |-> 0 ]

\* one session, reads of any size
SplitLimits ==
  [ WireLimits EXCEPT !.writes = MaxSplitWrites, !.short_reads = MaxShortReads ]

\* several sessions, reads that take all that is queued
TableLimits ==
  [ WireLimits EXCEPT !.accepts = MaxAccepts, !.writes = MaxTableWrites ]

\* one session whose peer follows a script
ScriptLimits(script) ==
  [ WireLimits EXCEPT !.writes = Len(script), !.script = script, !.frames = {} ]

\* the same, in a server whose application may register a parse handler
ParseHandlerLimits ==
  [ ScriptLimits(ExtendedSteps) EXCEPT !.sets = 1, !.settable = { "parse" } ]

\* registrations alone
SetterLimits ==
  [ WireLimits EXCEPT !.accepts = 0, !.writes = 0, !.frames = {},
                      !.sets = MaxSets, !.settable = CallbackSlots ]

\* one session and direct calls of the installed handlers
HandlerLimits ==
  [ WireLimits EXCEPT !.writes = 0, !.frames = {}, !.calls = MaxCalls ]

\* one session of a server linked with pg_query.c: a startup, then simple
\* queries and Syncs; every write() of the server completes
QueryLimits ==
  [ WireLimits EXCEPT !.writes = MaxQueryWrites, !.script = StartupFirst,
                      !.frames = QueryWrites, !.build = "pg_query" ]

\* the same, with write() calls of the server that fail or come up short
QueryFaultLimits ==
  [ QueryLimits EXCEPT !.writes = MaxFaultWrites, !.faults = TRUE ]

\* one session whose application calls pg_handle_password of pg_auth.c
AuthLimits ==
  [ WireLimits EXCEPT !.writes = 0, !.frames = {}, !.auth_calls = MaxAuthCalls ]

\* one session of a server whose application registers all its handlers at
\* once, with pg_server_set_callbacks or pg_server_set_logging_callbacks
BulkLimits(script) ==
  [ ScriptLimits(script) EXCEPT !.bulk = MaxBulk ]

\* an application that calls pg_read_message of pg_protocol.c
ReadLimits ==
  [ WireLimits EXCEPT !.accepts = 0, !.writes = 0, !.frames = {},
                      !.reads = MaxReads ]

\* several sessions, and a signal whose handler calls pg_server_stop
StopLimits ==
  [ TableLimits EXCEPT !.accepts = MaxStopAccepts, !.stops = 1 ]

Start(conns, lim) ==
  /\ max_connections \in conns
  /\ limits = lim
  /\ clients = [ i \in 0 .. (max_connections - 1) |-> NULL ]
  /\ num_clients = 0
  /\ sock = [ fd \in FDs |-> ClosedSock ]
  /\ wire = [ fd \in FDs |-> <<>> ]
  /\ trace = [ fd \in FDs |-> NoTrace ]
  /\ last = NoStep
  /\ accepts = 0
  /\ writes = 0
  /\ short_reads = 0
  /\ callbacks = PGCallbacks
  /\ sets = 0
  /\ direct_calls = 0
  /\ running = TRUE
  /\ server_fd = ListenFd
  /\ run_pc = "while"
  /\ stopped_selects = 0

Init ==
  \/ Start({1}, AuthLimits)
  \/ Start({1}, WireLimits)
  \/ Start({1}, SplitLimits)
  \/ Start(1 .. MaxConn, TableLimits)
  \/ \E script \in Scripts : Start({1}, ScriptLimits(script))
  \/ Start({1}, ParseHandlerLimits)
  \/ Start({1}, ReadLimits)
  \/ \E script \in BulkScripts : Start({1}, BulkLimits(script))
  \/ Start({1}, SetterLimits)
  \/ Start({1}, HandlerLimits)
  \/ Start({1}, QueryLimits)
  \/ Start({1}, QueryFaultLimits)
  \/ Start({MaxConn}, StopLimits)

(***************************************************************************)
(* pg_server_set_<slot>_callback, one setter per member of PGCallbacks.    *)
(***************************************************************************)
\* the handler each setter installs for a NULL argument
SetterDefault(slot) ==
  CASE slot = "startup" -> "pg_default_startup_callback"
    [] slot = "query" -> "pg_default_query_callback"
    [] slot = "password" -> "pg_default_password_callback"
    [] slot = "terminate" -> "pg_default_terminate_callback"
    [] slot = "sync" -> "pg_default_sync_callback"
    [] slot = "describe" -> "pg_default_describe_callback"
    [] slot = "bind" -> "pg_default_bind_callback"
    [] slot = "execute" -> "pg_default_execute_callback"
    [] slot = "parse" -> "pg_default_parse_callback"
    [] slot = "cancel" -> "pg_default_cancel_callback"
    [] slot = "ssl_request" -> "pg_default_ssl_request_callback"
    [] slot = "unknown" -> "pg_default_unknown_callback"

\* a setter that stores its argument as it is
pg_server_set_slot_callback_unchecked(slot, callback) ==
  [ callbacks EXCEPT ![slot] = callback ]

pg_server_set_slot_callback(slot, callback) ==
  [ callbacks EXCEPT ![slot] = IF callback # NoCallback THEN callback
                               ELSE SetterDefault(slot) ]

\* the handlers pg_server_set_logging_callbacks installs
LoggingCallbacks ==
  [ startup |-> "pg_logging_startup_callback",
    query |-> "pg_logging_query_callback",
    password |-> "pg_logging_password_callback",
    terminate |-> "pg_logging_terminate_callback",
    sync |-> "pg_logging_sync_callback",
    describe |-> "pg_logging_describe_callback",
    bind |-> "pg_logging_bind_callback",
    execute |-> "pg_logging_execute_callback",
    parse |-> "pg_logging_parse_callback",
    cancel |-> "pg_logging_cancel_callback",
    ssl_request |-> "pg_logging_ssl_request_callback",
    unknown |-> "pg_logging_unknown_callback" ]

\* the PGCallbacks structures an application passes to
\* pg_server_set_callbacks: one it zeroed and gave a parse handler only, one
\* that names every default but the parse handler, and one that is complete
CallbackTables ==
  { [ slot \in CallbackSlots |-> IF slot = "parse" THEN "app_error_callback"
                                 ELSE NoCallback ],
    [ PGCallbacks EXCEPT !.parse = NoCallback ],
    [ PGCallbacks EXCEPT !.parse = "app_error_callback" ] }

\* memcpy(&server->callbacks, callbacks, sizeof(PGCallbacks))
pg_server_set_callbacks(table) == table

\* the twelve assignments of pg_server_set_logging_callbacks
pg_server_set_logging_callbacks == LoggingCallbacks

SetCallbacks(table) ==
  /\ sets < limits.bulk
  /\ callbacks' = pg_server_set_callbacks(table)
  /\ sets' = sets + 1
  /\ last' = [ op |-> "set_all", table |-> table, before |-> callbacks ]
  /\ UNCHANGED reactor
  /\ UNCHANGED << max_connections, clients, num_clients, sock, wire, trace, limits,
                  accepts, writes, short_reads, direct_calls >>

SetLoggingCallbacks ==
  /\ sets < limits.bulk
  /\ callbacks' = pg_server_set_logging_callbacks
  /\ sets' = sets + 1
  /\ last' = [ op |-> "set_logging", before |-> callbacks ]
  /\ UNCHANGED reactor
  /\ UNCHANGED << max_connections, clients, num_clients, sock, wire, trace, limits,
                  accepts, writes, short_reads, direct_calls >>

SetCallback(slot, callback) ==
  /\ sets < limits.sets
  /\ slot \in limits.settable
  /\ callbacks' = pg_server_set_slot_callback(slot, callback)
  /\ sets' = sets + 1
  /\ last' = [ op |-> "set", slot |-> slot, callback |-> callback,
               before |-> callbacks ]
  /\ UNCHANGED reactor
  /\ UNCHANGED << max_connections, clients, num_clients, sock, wire, trace, limits,
                  accepts, writes, short_reads, direct_calls >>

(***************************************************************************)
(* pg_server_add_client, called by pg_server_run with the descriptor       *)
(* accept() returned (the lowest one not in use); secret is rand().        *)
(***************************************************************************)
\* a session whose backend_pid is the server's process id alone
NewClient_same_pid(client_fd, secret) ==
  [ fd |-> client_fd, user |-> NULL, database |-> NULL, authenticated |-> FALSE,
    txn_status |-> PG_TXN_IDLE, backend_pid |-> ServerPid, secret_key |-> secret ]

NewClient(client_fd, secret) ==
  [ fd |-> client_fd, user |-> NULL, database |-> NULL, authenticated |-> FALSE,
    txn_status |-> PG_TXN_IDLE, backend_pid |-> ServerPid + client_fd,
    secret_key |-> secret ]

\* an add that gives the first slot to the new connection when the table is
\* full
pg_server_add_client_evicting(client_fd, secret) ==
  IF num_clients >= max_connections
  THEN /\ clients' = [ clients EXCEPT ![0] = NewClient(client_fd, secret) ]
       /\ UNCHANGED << num_clients, sock >>
       /\ last' = [ op |-> "add_client", fd |-> client_fd, ret |-> -1 ]
  ELSE LET i == CHOOSE j \in Slots :
                  clients[j] = NULL /\ \A k \in Slots : k < j => clients[k] # NULL
       IN  /\ clients' = [ clients EXCEPT ![i] = NewClient(client_fd, secret) ]
           /\ num_clients' = num_clients + 1
           /\ sock' = [ sock EXCEPT ![client_fd] = [ ClosedSock EXCEPT !.open = TRUE ] ]
           /\ last' = [ op |-> "add_client", fd |-> client_fd, ret |-> 0 ]

pg_server_add_client(client_fd, secret) ==
  IF num_clients >= max_connections
  THEN \* close(client_fd)
       /\ UNCHANGED << clients, num_clients, sock >>
       /\ last' = [ op |-> "add_client", fd |-> client_fd, ret |-> -1 ]
  ELSE IF \E i \in Slots : clients[i] = NULL
  THEN LET i == CHOOSE j \in Slots :
                  clients[j] = NULL /\ \A k \in Slots : k < j => clients[k] # NULL
       IN  /\ clients' = [ clients EXCEPT ![i] = NewClient(client_fd, secret) ]
           /\ num_clients' = num_clients + 1
           /\ sock' = [ sock EXCEPT ![client_fd] = [ ClosedSock EXCEPT !.open = TRUE ] ]
           /\ last' = [ op |-> "add_client", fd |-> client_fd, ret |-> 0 ]
  ELSE \* free(client); close(client_fd)
       /\ UNCHANGED << clients, num_clients, sock >>
       /\ last' = [ op |-> "add_client", fd |-> client_fd, ret |-> -1 ]

\* an iteration of the loop begins when server->running is seen true
Serving == running /\ run_pc = "while"

Accept(secret) ==
  /\ Serving
  /\ server_fd # -1
  /\ accepts < limits.accepts
  /\ \E fd \in FDs :
       /\ ~sock[fd].open
       /\ \A g \in FDs : g < fd => sock[g].open
       /\ pg_server_add_client(fd, secret)
       /\ wire' = [ wire EXCEPT ![fd] = <<>> ]
       /\ trace' = [ trace EXCEPT ![fd] = NoTrace ]
  /\ accepts' = accepts + 1
  /\ UNCHANGED reactor
  /\ UNCHANGED << max_connections, limits, writes, short_reads, callbacks, sets, direct_calls >>

(***************************************************************************)
(* The peer: write() of one or several frames, close().                    *)
(***************************************************************************)
\* what the trace keeps of written frames: the kind and the type byte
Written(w) == [ i \in 1 .. Len(w) |-> [ kind |-> w[i].kind, type |-> w[i].bytes[1] ] ]

\* what the peer may write next in this run
NextWrites ==
  IF writes < Len(limits.script) THEN { limits.script[writes + 1] }
  ELSE limits.frames

ClientWrite(fd, w) ==
  /\ sock[fd].open
  /\ ~sock[fd].peer_closed
  /\ writes < limits.writes
  /\ w \in NextWrites
  /\ Pending(sock[fd].rcvq) < MaxPending
  /\ writes' = writes + 1
  /\ sock' = [ sock EXCEPT ![fd].rcvq = @ \o [ i \in 1 .. Len(w) |-> [ w[i] EXCEPT !.write = writes ] ] ]
  /\ trace' = [ trace EXCEPT ![fd].written = @ \o Written(w) ]
  /\ last' = NoStep
  /\ UNCHANGED reactor
  /\ UNCHANGED << max_connections, limits, clients, num_clients, wire, accepts,
                  short_reads, callbacks, sets, direct_calls >>

ClientClose(fd) ==
  /\ sock[fd].open
  /\ ~sock[fd].peer_closed
  /\ sock' = [ sock EXCEPT ![fd].peer_closed = TRUE ]
  /\ last' = NoStep
  /\ UNCHANGED reactor
  /\ UNCHANGED << max_connections, limits, clients, num_clients, wire, trace,
                  accepts, writes, short_reads, callbacks, sets, direct_calls >>

(***************************************************************************)
(* pg_server_handle_client: one recv(), then the switch on buffer[0].      *)
(***************************************************************************)
\* contents the stack may hold after the received bytes
StackGarbage == { <<0>>, <<120, 0>> }

\* the callback slot the switch selects for a type byte
Slot(msg_type) ==
  IF msg_type = 0 THEN "startup"
  ELSE IF msg_type = PqMsg_Query THEN "query"
  ELSE IF msg_type = PqMsg_Parse THEN "parse"
  ELSE IF msg_type = PqMsg_Bind THEN "bind"
  ELSE IF msg_type = PqMsg_Execute THEN "execute"
  ELSE IF msg_type = PqMsg_Describe THEN "describe"
  ELSE IF msg_type = PqMsg_Sync THEN "sync"
  ELSE IF msg_type = PqMsg_Terminate THEN "terminate"
  ELSE "unknown"

\* a call through a function pointer of server->callbacks
Handler(name, client, nok) ==
  CASE name = "pg_default_startup_callback" -> pg_default_startup_callback(client, nok)
    [] name = "pg_default_query_callback" -> pg_default_query_callback(client, nok)
    [] name = "pg_default_password_callback" -> pg_default_password_callback(client, nok)
    [] name = "pg_default_terminate_callback" -> pg_default_terminate_callback(client, nok)
    [] name = "pg_default_sync_callback" -> pg_default_sync_callback(client, nok)
    [] name = "pg_default_describe_callback" -> pg_default_describe_callback(client, nok)
    [] name = "pg_default_bind_callback" -> pg_default_bind_callback(client, nok)
    [] name = "pg_default_execute_callback" -> pg_default_execute_callback(client, nok)
    [] name = "pg_default_parse_callback" -> pg_default_parse_callback(client, nok)
    [] name = "pg_default_cancel_callback" -> pg_default_cancel_callback(client, nok)
    [] name = "pg_default_ssl_request_callback" ->
         pg_default_ssl_request_callback(client, nok)
    [] name = "pg_default_unknown_callback" -> pg_default_unknown_callback(client, nok)
    [] name = "app_error_callback" -> app_error_callback(client, nok)

\* a pg_logging_<slot>_callback that reports success whatever happened
pg_logging_callback_succeeds(slot, client, nok) ==
  LET result == Handler(PGCallbacks[slot], client, nok)
  IN  Did(result.calls, 0)

\* pg_logging_<slot>_callback: it formats its arguments (the bytes of the
\* receive buffer, and whatever follows them up to a zero byte) into
\* pg_log_config.log_file, calls pg_default_<slot>_callback with the same
\* arguments and returns its result; nothing it reads goes anywhere but the
\* log, and it sends nothing itself
pg_logging_callback(slot, client, nok) ==
  LET result == Handler(PGCallbacks[slot], client, nok)
  IN  Did(result.calls, result.ret)

\* server->callbacks.<slot>(client, ...)
Callback(slot, client, nok) ==
  IF callbacks[slot] = LoggingCallbacks[slot]
  THEN pg_logging_callback(slot, client, nok)
  ELSE Handler(callbacks[slot], client, nok)

\* the query handler is the pg_default_query_callback of pg_query.c
QueryByPgQuery(msg_type) ==
  /\ Slot(msg_type) = "query"
  /\ callbacks["query"] = "pg_default_query_callback"
  /\ limits.build = "pg_query"

\* the session record after the handler for buffer (bytes_read bytes, then
\* stack garbage) ran
ClientAfter(client, buffer, garbage) ==
  IF Slot(buffer[1]) = "startup"
     /\ callbacks["startup"] \in { PGCallbacks["startup"], LoggingCallbacks["startup"] }
  THEN StartupParse(client, buffer \o garbage, Len(buffer))
  ELSE IF QueryByPgQuery(buffer[1])
  THEN [ client EXCEPT !.txn_status =
           pg_query_default_query_callback(client, cstr(buffer \o garbage, 5)).txn_status ]
  ELSE client

\* what the selected handler sends and returns
pg_server_handle_client(client, buffer, garbage, nok) ==
  IF QueryByPgQuery(buffer[1])
  THEN LET did == pg_query_default_query_callback(client, cstr(buffer \o garbage, 5))
       IN  Did(did.calls, did.ret)
  ELSE Callback(Slot(buffer[1]), ClientAfter(client, buffer, garbage), nok)

\* a frame as the peer decodes it: type byte, length word, the bytes after it
FrameType(u) == u[1]
FrameLength(u) == ntohl(u, 2)
FramePayload(u) == SubSeq(u, 6, Len(u))

\* the ReadyForQuery frames among the byte strings of us
ReadyForQueryCount(us) ==
  Cardinality({ k \in 1 .. Len(us) : FrameType(us[k]) = PqMsg_ReadyForQuery })

\* the send() calls of a handler that succeeded
Delivered(did, nok) == SubSeq(did.calls, 1, Min(Len(did.calls), nok))

\* what write() may return for the one call of a handler that does not
\* complete: -1, or a count below the one asked for
WriteResults == { -1, 3 }

\* what reaches the peer of a handler that goes on after a write() that did
\* not complete: the first nok messages, result bytes of the next, and every
\* message after it
WriteDelivered(did, nok, result) ==
  IF nok >= Len(did.calls) THEN did.calls
  ELSE SubSeq(did.calls, 1, nok)
       \o (IF result > 0 THEN << Bytes(did.calls[nok + 1], result) >> ELSE <<>>)
       \o SubSeq(did.calls, nok + 2, Len(did.calls))

(***************************************************************************)
(* pg_server_remove_client                                                 *)
(***************************************************************************)
\* a removal that empties the table
pg_server_remove_client_every(fd) ==
  /\ clients' = [ i \in Slots |-> NULL ]
  /\ num_clients' = 0
  /\ sock' = [ g \in FDs |-> ClosedSock ]

pg_server_remove_client(fd) ==
  /\ clients' = [ clients EXCEPT ![SlotOf(fd)] = NULL ]
  /\ num_clients' = num_clients - 1
  /\ sock' = [ sock EXCEPT ![fd] = ClosedSock ]

\* the startup callback and the query handler of pg_query.c read the
\* received bytes
Garbage(msg_type) ==
  IF Slot(msg_type) = "startup" \/ QueryByPgQuery(msg_type) THEN StackGarbage
  ELSE { <<0>> }

\* how many of the handler's send() or write() calls succeed before one
\* does not: all of them, or fewer
SendOutcomes(client, buffer, garbage) ==
  LET calls == pg_server_handle_client(client, buffer, garbage, BUFFER_SIZE).calls
  IN  IF QueryByPgQuery(buffer[1]) /\ ~limits.faults THEN { Len(calls) }
      ELSE 0 .. Len(calls)

\* what the call that does not succeed returns
FaultResults(msg_type) == IF QueryByPgQuery(msg_type) THEN WriteResults ELSE { -1 }

\* the byte counts recv() may return for a queue of len bytes
RecvCounts(len) ==
  IF short_reads < limits.short_reads THEN 1 .. Min(len, BUFFER_SIZE)
  ELSE { Min(len, BUFFER_SIZE) }

(***************************************************************************)
(* pg_server_run: the turn of one readable session.                        *)
(***************************************************************************)
\* pg_server_handle_client when the slot the switch selects holds NULL: the
\* call through the null function pointer ends the process
HandleClientNull(fd) ==
  /\ Serving
  /\ fd \in Live
  /\ sock[fd].rcvq # <<>>
  /\ callbacks[Slot(Flat(sock[fd].rcvq)[1])] = NoCallback
  /\ run_pc' = "aborted"
  /\ last' = [ op |-> "handle_null", fd |-> fd,
               slot |-> Slot(Flat(sock[fd].rcvq)[1]) ]
  /\ UNCHANGED << max_connections, clients, num_clients, sock, wire, trace, limits,
                  accepts, writes, short_reads, callbacks, sets, direct_calls,
                  running, server_fd, stopped_selects >>

HandleClient(fd) ==
  /\ Serving
  /\ fd \in Live
  /\ sock[fd].rcvq # <<>>
  /\ callbacks[Slot(Flat(sock[fd].rcvq)[1])] # NoCallback
  /\ LET q == sock[fd].rcvq
         queued == Flat(q)
         i == SlotOf(fd)
         slot == Slot(queued[1])
     IN  \E n \in RecvCounts(Len(queued)) : \E garbage \in Garbage(queued[1]) :
           LET buffer == SubSeq(queued, 1, n)
               rest == Consume(q, n)
               client == ClientAfter(clients[i], buffer, garbage)
           IN  \E nok \in SendOutcomes(clients[i], buffer, garbage) :
               \E result \in FaultResults(queued[1]) :
                 LET did == pg_server_handle_client(clients[i], buffer, garbage, nok)
                     sent == IF QueryByPgQuery(queued[1])
                             THEN WriteDelivered(did, nok, result)
                             ELSE Delivered(did, nok)
                 IN  /\ short_reads' = IF n < Len(queued) THEN short_reads + 1
                                       ELSE short_reads
                     /\ wire' = [ wire EXCEPT ![fd] = @ \o sent ]
                     /\ trace' = [ trace EXCEPT
                          ![fd].dispatched = @ \o << slot >>,
                          ![fd].aligned = @ /\ Head(q).whole
                                            /\ (rest = <<>> \/ Head(rest).whole),
                          ![fd].handshake = @ \/ (slot = "startup" /\ did.ret = 0),
                          ![fd].queries = IF slot = "query" /\ trace[fd].handshake
                                             /\ did.ret >= 0
                                          THEN @ + 1 ELSE @,
                          ![fd].syncs = IF slot = "sync" /\ trace[fd].handshake
                                        THEN @ + 1 ELSE @,
                          ![fd].ready = IF slot # "startup"
                                        THEN @ + ReadyForQueryCount(sent) ELSE @ ]
                     /\ last' = [ op |-> "handle", fd |-> fd, slot |-> slot,
                                  calls |-> did.calls, sent |-> sent, ret |-> did.ret,
                                  client |-> client, at_start |-> Head(q).whole,
                                  txn_before |-> clients[i].txn_status,
                                  whole |-> Written(WholeFrames(q, n)),
                                  handshake |-> trace[fd].handshake,
                                  oob |-> /\ slot = "startup"
                                          /\ callbacks[slot] # "app_error_callback"
                                          /\ StartupReadsOutOfBounds(clients[i],
                                               buffer \o garbage, n) ]
                     /\ IF did.ret < 0
                        THEN pg_server_remove_client(fd)
                        ELSE /\ clients' = [ clients EXCEPT ![i] = client ]
                             /\ sock' = [ sock EXCEPT ![fd].rcvq = rest ]
                             /\ UNCHANGED num_clients
  /\ UNCHANGED reactor
  /\ UNCHANGED << max_connections, limits, accepts, writes, callbacks, sets, direct_calls >>

\* an end of stream that ends the loop as well
HandleEOF_stops(fd) ==
  /\ Serving
  /\ fd \in Live
  /\ sock[fd].rcvq = <<>>
  /\ sock[fd].peer_closed
  /\ pg_server_remove_client(fd)
  /\ \E bytes_read \in { -1, 0 } :
       last' = [ op |-> "eof", fd |-> fd, bytes_read |-> bytes_read, ret |-> -1 ]
  /\ running' = FALSE
  /\ UNCHANGED << server_fd, run_pc, stopped_selects >>
  /\ UNCHANGED << max_connections, limits, wire, trace, accepts, writes, short_reads,
                  callbacks, sets, direct_calls >>

\* recv() returns 0 or -1: the peer closed, or reset the connection after
\* it closed, and nothing is queued
HandleEOF(fd) ==
  /\ Serving
  /\ fd \in Live
  /\ sock[fd].rcvq = <<>>
  /\ sock[fd].peer_closed
  /\ pg_server_remove_client(fd)
  /\ \E bytes_read \in { -1, 0 } :
       last' = [ op |-> "eof", fd |-> fd, bytes_read |-> bytes_read, ret |-> -1 ]
  /\ UNCHANGED reactor
  /\ UNCHANGED << max_connections, limits, wire, trace, accepts, writes, short_reads,
                  callbacks, sets, direct_calls >>

\* a handler called directly on a session, as the logging wrappers call the
\* default handlers; its result is handed back to the caller
InvokeCallback(fd, slot) ==
  /\ direct_calls < limits.calls
  /\ fd \in Live
  /\ LET client == clients[SlotOf(fd)]
     IN  \E nok \in 0 .. Len(Callback(slot, client, BUFFER_SIZE).calls) :
           LET did == Callback(slot, client, nok)
               sent == Delivered(did, nok)
           IN  /\ wire' = [ wire EXCEPT ![fd] = @ \o sent ]
               /\ last' = [ op |-> "call", fd |-> fd, slot |-> slot,
                            handler |-> callbacks[slot], calls |-> did.calls,
                            sent |-> sent, ret |-> did.ret ]
  /\ direct_calls' = direct_calls + 1
  /\ UNCHANGED reactor
  /\ UNCHANGED << max_connections, clients, num_clients, sock, trace, limits,
                  accepts, writes, short_reads, callbacks, sets >>

(***************************************************************************)
(* pg_auth.c: the password check.                                          *)
(***************************************************************************)
PG_MSG_AUTHENTICATION == 82       \* 'R'
PG_AUTH_OK == 0
PG_AUTH_MD5 == 5

S_postgres == <<112, 111, 115, 116, 103, 114, 101, 115>>
S_test == <<116, 101, 115, 116>>
SQLSTATE_28000 == <<50, 56, 48, 48, 48>>
S_Invalid_password == <<73, 110, 118, 97, 108, 105, 100, 32, 112, 97, 115, 115, 119, 111, 114, 100>>

\* static PGUser default_users[], without its NULL end mark
default_users ==
  << [ username |-> S_postgres, password |-> S_postgres ],
     [ username |-> S_test, password |-> S_test ] >>

\* a char * holding a string
Str(chars) == [ null |-> FALSE, chars |-> chars ]

\* client->user values and password arguments of the calls
AuthUsers == { NULL, Str(S_postgres), Str(S_test), Str(S_u) }
AuthPasswords == { NULL, Str(S_postgres), Str(S_test), Str(<<>>) }

\* 'a' + (rand() % 26), four times
Salts == { <<97, 97, 97, 97>>, <<113, 122, 98, 121>> }

pg_send_auth_request(auth_type) ==
  pg_send_message(PG_MSG_AUTHENTICATION, htonl(auth_type), 4)

pg_send_auth_ok == pg_send_auth_request(PG_AUTH_OK)

\* the first entry of default_users whose username is the given one, or 0
RECURSIVE FindUser(_, _)
FindUser(username, i) ==
  IF i > Len(default_users) THEN 0
  ELSE IF username.chars = default_users[i].username THEN i
  ELSE FindUser(username, i + 1)

\* the MD5 request of pg_default_auth_callback: two calls of pg_send_message
MD5Request(salt) ==
  << pg_send_message(PG_MSG_AUTHENTICATION, htonl(PG_AUTH_MD5), 4),
     pg_send_message(0, salt, 4) >>

\* pg_default_auth_callback for a username that is not NULL
pg_default_auth_callback(username, password, salt) ==
  LET i == FindUser(username, 1)
  IN  IF i = 0 THEN Did(<<>>, -1)
      ELSE IF password = NULL THEN Did(MD5Request(salt), 0)
      ELSE IF password.chars = default_users[i].password THEN Did(<<>>, 0)
      ELSE Did(<<>>, -1)

\* pg_handle_password for a client whose user is not NULL
pg_handle_password(client, password, salt) ==
  LET auth == pg_default_auth_callback(client.user, password, salt)
  IN  IF auth.ret # 0
      THEN Did(auth.calls \o << pg_send_error(SQLSTATE_28000, S_Invalid_password) >>, -1)
      ELSE Did(auth.calls \o << pg_send_auth_ok >>, 0)

\* the application calls pg_handle_password for the session of fd, whose
\* user field holds user.  strcmp(NULL, ..) reads address 0: the process is
\* ended by SIGSEGV.  Every write() takes the whole frame.
HandlePassword(fd, user, password, salt) ==
  /\ Serving
  /\ direct_calls < limits.auth_calls
  /\ fd \in Live
  /\ LET client == [ clients[SlotOf(fd)] EXCEPT !.user = user ]
         crashed == (user = NULL)
         did == IF crashed THEN Did(<<>>, -1)
                ELSE pg_handle_password(client, password, salt)
     IN  /\ wire' = [ wire EXCEPT ![fd] = @ \o did.calls ]
         /\ last' = [ op |-> "password", fd |-> fd, user |-> user,
                      password |-> password, salt |-> salt, calls |-> did.calls,
                      sent |-> did.calls, ret |-> did.ret, crashed |-> crashed ]
         /\ run_pc' = IF crashed THEN "aborted" ELSE run_pc
  /\ direct_calls' = direct_calls + 1
  /\ UNCHANGED << max_connections, clients, num_clients, sock, trace, limits,
                  accepts, writes, short_reads, callbacks, sets,
                  running, server_fd, stopped_selects >>

(***************************************************************************)
(* pg_server_stop, called by the signal handler of main, and what is left  *)
(* of pg_server_run after it.  The signal finds the loop at its while      *)
(* test, past the test and before FD_SET, inside select(), or past a       *)
(* select() that returned 0 or more; a second signal finds nothing to      *)
(* change.                                                                 *)
(***************************************************************************)
\* a pg_server_stop that closes the listener and keeps its descriptor
pg_server_stop_keeps_listener ==
  /\ running' = FALSE
  /\ clients' = [ i \in Slots |-> NULL ]
  /\ num_clients' = num_clients - Cardinality(Live)
  /\ sock' = [ fd \in FDs |-> IF fd \in Live THEN ClosedSock ELSE sock[fd] ]
  /\ server_fd' = server_fd

pg_server_stop ==
  /\ running' = FALSE
  /\ clients' = [ i \in Slots |-> NULL ]
  /\ num_clients' = num_clients - Cardinality(Live)
  /\ sock' = [ fd \in FDs |-> IF fd \in Live THEN ClosedSock ELSE sock[fd] ]
  /\ server_fd' = -1

Stop(at) ==
  /\ limits.stops > 0
  /\ running
  /\ run_pc = "while"
  /\ pg_server_stop
  /\ run_pc' = at
  /\ last' = [ op |-> "stop", at |-> at ]
  /\ UNCHANGED << max_connections, wire, trace, limits, accepts, writes,
                  short_reads, callbacks, sets, direct_calls, stopped_selects >>

\* a pg_server_remove_client that counts a session out without finding it
RemoveClient_uncounted(table, n, fd) ==
  [ clients |-> [ i \in Slots |-> IF table[i] # NULL /\ table[i].fd = fd
                                 THEN NULL ELSE table[i] ],
    num_clients |-> n - 1, ret |-> 0 ]

\* pg_server_remove_client on a table of n sessions, for the session of
\* descriptor fd: the table and the count after it, and what it returns
RemoveClient(table, n, fd) ==
  IF \E i \in Slots : table[i] # NULL /\ table[i].fd = fd
  THEN [ clients |-> [ i \in Slots |-> IF table[i] # NULL /\ table[i].fd = fd
                                      THEN NULL ELSE table[i] ],
         num_clients |-> n - 1, ret |-> 0 ]
  ELSE [ clients |-> table, num_clients |-> n, ret |-> -1 ]

\* client->fd read through a pointer to a session that was freed: the
\* descriptor it held, or whatever the allocator left in those bytes
DanglingFds(fd) == { fd, 0 }

\* the signal arrives while pg_server_handle_client runs for the session of
\* fd, after recv() and the first `point' send() calls of the handler:
\* pg_server_stop frees every session and closes every descriptor, then the
\* handler goes on with its pointer to the freed session; its next send()
\* is on a descriptor that is no socket any more and fails; a result below 0
\* makes pg_server_run call pg_server_remove_client with the freed pointer
StopInHandler(fd) ==
  /\ limits.stops > 0
  /\ Serving
  /\ fd \in Live
  /\ sock[fd].rcvq # <<>>
  /\ LET queued == Flat(sock[fd].rcvq)
         buffer == SubSeq(queued, 1, Min(Len(queued), BUFFER_SIZE))
         slot == Slot(queued[1])
         whole == pg_server_handle_client(clients[SlotOf(fd)], buffer, <<0>>, BUFFER_SIZE)
     IN  \E point \in 0 .. Len(whole.calls) : \E dangling \in DanglingFds(fd) :
           LET did == pg_server_handle_client(clients[SlotOf(fd)], buffer, <<0>>, point)
               sent == Delivered(did, point)
               stopped == [ i \in Slots |-> NULL ]
               left == num_clients - Cardinality(Live)
               removed == IF did.ret < 0 THEN RemoveClient(stopped, left, fd)
                          ELSE [ clients |-> stopped, num_clients |-> left, ret |-> 0 ]
           IN  /\ running' = FALSE
               /\ server_fd' = -1
               /\ sock' = [ d \in FDs |-> IF d \in Live THEN ClosedSock ELSE sock[d] ]
               /\ clients' = removed.clients
               /\ num_clients' = removed.num_clients
               /\ wire' = [ wire EXCEPT ![fd] = @ \o sent ]
               /\ trace' = [ trace EXCEPT ![fd].dispatched = @ \o << slot >> ]
               /\ last' = [ op |-> "stop_in_handler", fd |-> fd, slot |-> slot,
                            point |-> point, calls |-> did.calls, sent |-> sent,
                            ret |-> did.ret,
                            used_freed |-> point < Len(whole.calls),
                            send_fd |-> IF point < Len(whole.calls) THEN dangling ELSE fd,
                            remove_called |-> did.ret < 0,
                            remove_ret |-> removed.ret,
                            table_before |-> stopped, count_before |-> left ]
  /\ run_pc' = "while"
  /\ UNCHANGED << max_connections, limits, accepts, writes, short_reads,
                  callbacks, sets, direct_calls, stopped_selects >>

\* the signal arrives in pg_server_run between accept(), which returned
\* client_fd, and pg_server_add_client: pg_server_stop empties the table and
\* closes the listener, then pg_server_add_client gives the first slot of the
\* emptied table to the new connection
StopInAccept(secret) ==
  /\ limits.stops > 0
  /\ Serving
  /\ server_fd # -1
  /\ accepts < limits.accepts
  /\ \E client_fd \in FDs :
       /\ ~sock[client_fd].open
       /\ \A g \in FDs : g < client_fd => sock[g].open
       /\ running' = FALSE
       /\ server_fd' = -1
       /\ clients' = [ i \in Slots |-> IF i = 0 THEN NewClient(client_fd, secret)
                                       ELSE NULL ]
       /\ num_clients' = (num_clients - Cardinality(Live)) + 1
       /\ sock' = [ d \in FDs |->
                      IF d = client_fd THEN [ ClosedSock EXCEPT !.open = TRUE ]
                      ELSE IF d \in Live THEN ClosedSock ELSE sock[d] ]
       /\ wire' = [ wire EXCEPT ![client_fd] = <<>> ]
       /\ trace' = [ trace EXCEPT ![client_fd] = NoTrace ]
       /\ last' = [ op |-> "stop_in_accept", fd |-> client_fd ]
  /\ accepts' = accepts + 1
  /\ run_pc' = "while"
  /\ UNCHANGED << max_connections, limits, writes, short_reads, callbacks, sets,
                  direct_calls, stopped_selects >>

\* pg_server_destroy, called by main when pg_server_run has returned: it
\* calls pg_server_stop, which closes the descriptor of every session the
\* table holds and frees it, and closes the listener if server_fd >= 0
Destroy ==
  /\ run_pc = "returned"
  /\ pg_server_stop
  /\ run_pc' = "destroyed"
  /\ last' = [ op |-> "destroy",
               closed |-> Live,
               freed |-> { i \in Slots : clients[i] # NULL },
               listener_closed |-> (server_fd >= 0),
               open_before |-> { fd \in FDs : sock[fd].open } ]
  /\ UNCHANGED << max_connections, wire, trace, limits, accepts, writes,
                  short_reads, callbacks, sets, direct_calls, stopped_selects >>

(***************************************************************************)
(* pg_read_message of pg_protocol.c, called by an application with a       *)
(* buffer of buffer_size bytes on a descriptor whose peer wrote stream and *)
(* closed.  C offsets are 0-based: buffer[k] is written[k].                *)
(***************************************************************************)
\* length = ntohl(length) with int32_t length: the big-endian word at bytes
\* i..i+3 (1-based) of b, read as signed
Int32(b, i) ==
  (IF b[i] >= 128 THEN b[i] - 256 ELSE b[i]) * 16777216
  + b[i + 1] * 65536 + b[i + 2] * 256 + b[i + 3]

\* what the peer wrote: nothing; a type byte; a type byte and half a length;
\* whole frames of declared length 4 and 13; a frame cut inside its payload;
\* declared lengths 3, -1 and 2^30
ReadStreams ==
  { <<>>, << PqMsg_Query >>, << PqMsg_Query, 0, 0 >>, F_Sync, F_Query,
    SubSeq(F_Query, 1, 9), F_QueryLength(3), << PqMsg_Query >> \o htonl(3),
    << PqMsg_Query, 255, 255, 255, 255 >>, F_QueryLength(OverLength) }

\* the buffer_size an application passes
BufferSizes == { 4, 5, 16 }

\* a byte of `length' that read() did not fill
LengthGarbage == { 0, 9 }

\* read(fd, p, count) with avail bytes left before the end of the stream:
\* a count that is negative as an int becomes a size_t above SSIZE_MAX,
\* which the kernel refuses (EINVAL, -1); at the end of the stream 0; else
\* any number of bytes from 1 to what was asked for and is there
read(avail, count) ==
  IF count < 0 THEN { -1 }
  ELSE IF count = 0 \/ avail = 0 THEN { 0 }
  ELSE 1 .. Min(count, avail)

\* the result: what is returned, the bytes written into buffer by offset,
\* how much each read() gave and the length as the function saw it
Reading(ret, written, r1, r2, r3, length) ==
  [ ret |-> ret, written |-> written, r1 |-> r1, r2 |-> r2, r3 |-> r3,
    length |-> length ]

\* the bytes a read() of n bytes at buffer + 5 stores, from offset `from' of
\* the stream
Stored(stream, from, n) ==
  [ k \in 5 .. (4 + n) |-> stream[from + (k - 5) + 1] ]

\* buffer with the four bytes of *((int32_t *)(buffer + 1)) = htonl(length)
WithLength(written, length) ==
  [ k \in DOMAIN written \cup (1 .. 4) |->
      IF k \in 1 .. 4 THEN htonl(length)[k] ELSE written[k] ]

\* every result pg_read_message can give
pg_read_message(stream, buffer_size) ==
  UNION { IF r1 <= 0 THEN { Reading(-1, <<>>, r1, 0, 0, 0) }
          ELSE LET typed == [ k \in { 0 } |-> stream[1] ]
               IN  UNION { IF r2 <= 0 THEN { Reading(-1, typed, r1, r2, 0, 0) }
                           ELSE UNION {
                             LET word == SubSeq(stream, 2, 1 + r2)
                                         \o [ k \in 1 .. (4 - r2) |-> g ]
                                 length == Int32(word, 1)
                             IN  IF length > buffer_size - 1
                                 THEN { Reading(-1, typed, r1, r2, 0, length) }
                                 ELSE { LET body == IF r3 > 0
                                                    THEN typed @@ Stored(stream, 1 + r2, r3)
                                                    ELSE typed
                                        IN  IF r3 # length - 4
                                            THEN Reading(-1, body, r1, r2, r3, length)
                                            ELSE Reading(length + 1,
                                                         WithLength(body, length),
                                                         r1, r2, r3, length)
                                        : r3 \in read(Len(stream) - 1 - r2, length - 4) }
                             : g \in LengthGarbage }
                         : r2 \in read(Len(stream) - 1, 4) }
        : r1 \in read(Len(stream), 1) }

ReadMessage(stream, buffer_size) ==
  /\ direct_calls < limits.reads
  /\ \E got \in pg_read_message(stream, buffer_size) :
       last' = [ op |-> "read_message", stream |-> stream,
                 buffer_size |-> buffer_size, ret |-> got.ret,
                 written |-> got.written, r1 |-> got.r1, r2 |-> got.r2,
                 r3 |-> got.r3, length |-> got.length ]
  /\ direct_calls' = direct_calls + 1
  /\ UNCHANGED << max_connections, clients, num_clients, sock, wire, trace, limits,
                  accepts, writes, short_reads, callbacks, sets,
                  running, server_fd, run_pc, stopped_selects >>

\* while (server->running)
pg_server_run_while == running

\* FD_SET(fd, &read_fds): below 0 the macro is undefined; it sets a bit of
\* the set's first word, or its checked form (__fdelt_chk) aborts the process
FD_SET(fd) == IF fd < 0 THEN { "bit", "abort" } ELSE { "bit" }

\* FD_ISSET(fd, &read_fds): below 0 it reads whatever that bit holds, or its
\* checked form aborts the process
FD_ISSET(fd) == IF fd < 0 THEN { "set", "clear", "abort" } ELSE { "set", "clear" }

\* the while test of a stopped server
RunWhile ==
  /\ ~running
  /\ run_pc = "while"
  /\ stopped_selects < MaxSelects
  /\ run_pc' = IF pg_server_run_while THEN "fd_set" ELSE "returned"
  /\ last' = [ op |-> "while" ]
  /\ UNCHANGED << max_connections, clients, num_clients, sock, wire, trace, limits,
                  accepts, writes, short_reads, callbacks, sets, direct_calls,
                  running, server_fd, stopped_selects >>

\* the head of an iteration of a stopped server, which had passed the while
\* test before the signal: FD_SET(server->server_fd) with server_fd = -1; no
\* slot of the table holds a session, so max_fd = -1
RunFdSet ==
  /\ ~running
  /\ run_pc = "fd_set"
  /\ \E outcome \in FD_SET(server_fd) :
       /\ run_pc' = IF outcome = "abort" THEN "aborted" ELSE "select"
       /\ last' = [ op |-> "fd_set", outcome |-> outcome ]
  /\ UNCHANGED << max_connections, clients, num_clients, sock, wire, trace, limits,
                  accepts, writes, short_reads, callbacks, sets, direct_calls,
                  running, server_fd, stopped_selects >>

\* what select() returns in a stopped server: -1 when a signal interrupted
\* it; called after the stop it has no descriptor to watch (nfds = 0) and
\* returns 0 when its tick of one second runs out
select(pc) == IF pc = "in_select" THEN { -1 } ELSE { -1, 0 }

\* select() of a stopped server returns
RunSelect ==
  /\ ~running
  /\ run_pc \in { "select", "in_select" }
  /\ stopped_selects' = stopped_selects + 1
  /\ \E activity \in select(run_pc) :
       /\ run_pc' = IF activity < 0 THEN "while" ELSE "serve"
       /\ last' = [ op |-> "select", activity |-> activity ]
  /\ UNCHANGED << max_connections, clients, num_clients, sock, wire, trace, limits,
                  accepts, writes, short_reads, callbacks, sets, direct_calls,
                  running, server_fd >>

\* the rest of an iteration of a stopped server: FD_ISSET(server->server_fd)
\* with server_fd = -1; if the bit reads as set, accept() on -1 fails; no
\* slot of the table holds a session
RunServe ==
  /\ ~running
  /\ run_pc = "serve"
  /\ \E outcome \in FD_ISSET(server_fd) :
       /\ run_pc' = IF outcome = "abort" THEN "aborted" ELSE "while"
       /\ last' = [ op |-> "serve", outcome |-> outcome ]
  /\ UNCHANGED << max_connections, clients, num_clients, sock, wire, trace, limits,
                  accepts, writes, short_reads, callbacks, sets, direct_calls,
                  running, server_fd, stopped_selects >>

Next ==
  \/ \E slot \in CallbackSlots : \E callback \in AppCallbacks \cup { NoCallback } :
       SetCallback(slot, callback)
  \/ \E fd \in FDs : \E slot \in CallbackSlots \ { "startup" } :
       InvokeCallback(fd, slot)
  \/ \E secret \in Secrets : Accept(secret)
  \/ \E fd \in FDs : \E w \in AllWrites : ClientWrite(fd, w)
  \/ \E fd \in FDs : ClientClose(fd)
  \/ \E fd \in FDs : HandleClient(fd)
  \/ \E fd \in FDs : HandleEOF(fd)
  \/ \E fd \in FDs : \E user \in AuthUsers : \E password \in AuthPasswords :
       \E salt \in Salts : HandlePassword(fd, user, password, salt)
  \/ \E at \in { "while", "fd_set", "in_select", "serve" } : Stop(at)
  \/ \E fd \in FDs : StopInHandler(fd)
  \/ \E secret \in Secrets : StopInAccept(secret)
  \/ Destroy
  \/ \E fd \in FDs : HandleClientNull(fd)
  \/ \E stream \in ReadStreams : \E buffer_size \in BufferSizes :
       ReadMessage(stream, buffer_size)
  \/ \E table \in CallbackTables : SetCallbacks(table)
  \/ SetLoggingCallbacks
  \/ RunWhile
  \/ RunFdSet
  \/ RunSelect
  \/ RunServe

Spec == Init /\ [][Next]_vars

(***************************************************************************)
(* Properties.                                                             *)
(***************************************************************************)
Handled(slot) == last.op = "handle" /\ last.slot = slot

\* the buffer of the last dispatch held one or more whole frames from its
\* first byte on, the first of them of this kind
HandledFrame(kind) ==
  /\ last.op = "handle"
  /\ last.at_start
  /\ last.whole # <<>>
  /\ last.whole[1].kind = kind

AllSent == last.op = "handle" /\ last.sent = last.calls

\* C1: for a Query handled by the default query handler whose sends all
\* succeed, exactly one ReadyForQuery is sent and it is the last frame sent.
C1_QueryEndsWithOneReadyForQuery ==
  (Handled("query") /\ AllSent) =>
    /\ ReadyForQueryCount(last.sent) = 1
    /\ FrameType(last.sent[Len(last.sent)]) = PqMsg_ReadyForQuery

\* C2: a Sync dispatched to the sync handler hands exactly one frame to
\* send(), a well-formed ReadyForQuery, and nothing else; it reaches the peer
\* unless the send fails, and then the handler returns a negative value.
C2_SyncSendsOneReadyForQuery ==
  Handled("sync") =>
    /\ Len(last.calls) = 1
    /\ FrameType(last.calls[1]) = PqMsg_ReadyForQuery
    /\ FrameLength(last.calls[1]) = 5
    /\ Len(FramePayload(last.calls[1])) = 1
    /\ \/ last.sent = last.calls /\ last.ret >= 0
       \/ last.sent = <<>> /\ last.ret < 0

\* C2 witness: a Sync answered after a Parse of the same session
C2_Witness ==
  /\ HandledFrame("Sync")
  /\ AllSent
  /\ trace[last.fd].dispatched = << "parse", "sync" >>
  /\ Len(wire[last.fd]) = 2

\* C3: once every byte a peer wrote has been received, in reads that each
\* took whole frames, every frame written has been dispatched once, in order.
C3_EveryFrameDispatchedInOrder ==
  \A fd \in Live :
    (trace[fd].aligned /\ sock[fd].rcvq = <<>>) =>
      trace[fd].dispatched =
        [ k \in 1 .. Len(trace[fd].written) |-> Slot(trace[fd].written[k].type) ]

\* C4: every dispatch is made on a buffer that starts at the first byte of a
\* frame and holds that frame to its last byte.
C4_DispatchOnlyOnWholeFrame ==
  last.op = "handle" => (last.at_start /\ last.whole # <<>>)

\* C5: for every session, the ReadyForQuery frames sent after the handshake
\* are as many as the Query messages completed plus the Sync messages
\* received after the handshake.
C5_ReadyForQueryCountMatches ==
  \A fd \in FDs : trace[fd].ready = trace[fd].queries + trace[fd].syncs

\* C6: every typed frame sent carries a length word equal to 4 plus the
\* number of bytes sent after it.
C6_LengthWordMatchesPayload ==
  \A fd \in FDs : \A k \in 1 .. Len(wire[fd]) :
    Len(wire[fd][k]) >= 5 =>
      FrameLength(wire[fd][k]) = 4 + Len(FramePayload(wire[fd][k]))

\* C7: a Query, Parse, Bind, Describe, Execute or Sync received before the
\* session's handshake is complete causes no response frame.
C7_NoResponseBeforeHandshake ==
  \A kind \in { "Query", "Parse", "Bind", "Describe", "Execute", "Sync" } :
    (HandledFrame(kind) /\ ~last.handshake) => last.sent = <<>>

\* C8: a connection whose first message is a CancelRequest is never sent a
\* byte.
C8_CancelRequestGetsNoReply ==
  \A fd \in FDs :
    (trace[fd].written # <<>> /\ trace[fd].written[1].kind = "CancelRequest")
      => wire[fd] = <<>>

\* C9: no two sessions of the live-session table have the same
\* (backend_pid, secret_key) pair.
C9_SessionKeysUnique ==
  \A i, j \in Slots :
    (i # j /\ clients[i] # NULL /\ clients[j] # NULL) =>
      << clients[i].backend_pid, clients[i].secret_key >>
        # << clients[j].backend_pid, clients[j].secret_key >>

\* C9 witness: two live sessions that drew the same secret, one of them
\* accepted on a descriptor set free by a removal
C9_Witness ==
  /\ num_clients = 2
  /\ accepts = 3
  /\ \E i, j \in Slots :
       /\ i # j
       /\ clients[i] # NULL
       /\ clients[j] # NULL
       /\ clients[i].secret_key = clients[j].secret_key

\* the frames of a completed startup, as the protocol lays them out
ExpectedStartup(pid, key) ==
  << Typed(PqMsg_AuthenticationRequest, htonl(0)),
     Typed(PqMsg_ParameterStatus, S_server_version \o <<0>> \o S_14_0 \o <<0>>),
     Typed(PqMsg_ParameterStatus, S_client_encoding \o <<0>> \o S_UTF8 \o <<0>>),
     Typed(PqMsg_ParameterStatus, S_server_encoding \o <<0>> \o S_UTF8 \o <<0>>),
     Typed(PqMsg_ParameterStatus, S_DateStyle \o <<0>> \o S_ISO_MDY \o <<0>>),
     Typed(PqMsg_BackendKeyData, htonl(pid) \o htonl(key)),
     Typed(PqMsg_ReadyForQuery, <<73>>) >>

\* C10: the startup handler sends AuthenticationOk, the four ParameterStatus
\* frames, BackendKeyData with the session's own pid and key and
\* ReadyForQuery('I'), in this order and nothing else, and returns 0; when a
\* send fails nothing after it is sent and the handler returns -1.
C10_StartupFramesInOrder ==
  Handled("startup") =>
    LET expected ==
          ExpectedStartup(last.client.backend_pid, last.client.secret_key)
    IN  /\ Len(last.calls) <= Len(expected)
        /\ last.calls = SubSeq(expected, 1, Len(last.calls))
        /\ last.sent = last.calls => (last.calls = expected /\ last.ret = 0)
        /\ last.sent # last.calls =>
             /\ last.sent = SubSeq(last.calls, 1, Len(last.calls) - 1)
             /\ last.ret = -1
        /\ last.ret = 0 =>
             /\ clients[SlotOf(last.fd)].secret_key = last.client.secret_key
             /\ clients[SlotOf(last.fd)].backend_pid = last.client.backend_pid

\* C10 witness: a StartupMessage answered with all seven frames
C10_Witness ==
  /\ HandledFrame("Startup")
  /\ last.ret = 0
  /\ Len(last.sent) = 7
  /\ wire[last.fd] = last.sent

\* the kinds of the frames the peer of fd wrote, in order
KindsWritten(fd) ==
  [ k \in 1 .. Len(trace[fd].written) |-> trace[fd].written[k].kind ]

\* the peer of fd got an answer to everything it wrote, and fd is still a
\* session of the table
Answered(fd) ==
  /\ fd \in Live
  /\ sock[fd].rcvq = <<>>
  /\ Len(trace[fd].dispatched) = Len(trace[fd].written)

\* C11: a peer that wrote SSLRequest, StartupMessage(user=u, database=u) and
\* Query('SELECT 1'), reading each answer, has received the byte 'N', then
\* AuthenticationOk, ParameterStatus server_version=14.0, ParameterStatus
\* client_encoding=UTF8, BackendKeyData(pid, secret), ReadyForQuery('I'),
\* then EmptyQueryResponse and ReadyForQuery('I'): seven frames after 'N'.
C11_HappyStartupAnswers ==
  \A fd \in FDs :
    (Answered(fd) /\ KindsWritten(fd) = << "SSLRequest", "Startup", "Query" >>) =>
      LET client == clients[SlotOf(fd)]
      IN  wire[fd] =
            << <<78>>,
               Typed(PqMsg_AuthenticationRequest, htonl(0)),
               Typed(PqMsg_ParameterStatus,
                     S_server_version \o <<0>> \o S_14_0 \o <<0>>),
               Typed(PqMsg_ParameterStatus,
                     S_client_encoding \o <<0>> \o S_UTF8 \o <<0>>),
               Typed(PqMsg_BackendKeyData,
                     htonl(client.backend_pid) \o htonl(client.secret_key)),
               Typed(PqMsg_ReadyForQuery, <<73>>),
               Typed(PqMsg_EmptyQueryResponse, <<>>),
               Typed(PqMsg_ReadyForQuery, <<73>>) >>

\* the bytes sub occur in u
Contains(u, sub) ==
  \E k \in 0 .. (Len(u) - Len(sub)) : SubSeq(u, k + 1, k + Len(sub)) = sub

\* u is an ErrorResponse whose SQLSTATE field ('C') is code
IsErrorResponse(u, code) ==
  /\ Len(u) >= 5
  /\ FrameType(u) = PqMsg_ErrorResponse
  /\ Contains(FramePayload(u), <<67>> \o code \o <<0>>)

SQLSTATE_08P01 == <<48, 56, 80, 48, 49>>

\* the frame types of a handshake
HandshakeTypes ==
  { PqMsg_AuthenticationRequest, PqMsg_ParameterStatus, PqMsg_BackendKeyData,
    PqMsg_ReadyForQuery }

\* the last step answered with one ErrorResponse of this SQLSTATE, with no
\* frame of a handshake, and closed the session
RejectedWith(code) ==
  /\ \E k \in 1 .. Len(last.sent) : IsErrorResponse(last.sent[k], code)
  /\ \A k \in 1 .. Len(last.sent) : FrameType(last.sent[k]) \notin HandshakeTypes
  /\ last.fd \notin Live
  /\ ~sock[last.fd].open

\* C12: a startup packet whose version has high 16 bits other than 3, and
\* which is no SSLRequest, CancelRequest or GSSENCRequest, is answered with
\* ErrorResponse 08P01 and the session is closed; no AuthenticationOk,
\* ParameterStatus, BackendKeyData or ReadyForQuery is sent for it.
C12_BadVersionRejected ==
  (HandledFrame("StartupV2") /\ AllSent) => RejectedWith(SQLSTATE_08P01)

\* C13: a StartupMessage without 'user' is answered with ErrorResponse 28000
\* and the session is closed, no AuthenticationOk sent; for a StartupMessage
\* with 'user' and without 'database' the session's database is the user name.
C13_UserRequiredDatabaseDefaults ==
  /\ (HandledFrame("StartupNoUser") /\ AllSent) => RejectedWith(SQLSTATE_28000)
  /\ (HandledFrame("StartupNoDatabase") /\ last.ret = 0) =>
       /\ last.client.user = [ null |-> FALSE, chars |-> S_u ]
       /\ last.client.database = [ null |-> FALSE, chars |-> S_u ]

\* C14: an SSLRequest that is the first message of a connection is answered
\* with the one byte 'N' and nothing else, and a StartupMessage that follows
\* it is answered with the handshake of the session.
C14_SSLRequestAnsweredN ==
  \A fd \in FDs :
    /\ (Answered(fd) /\ KindsWritten(fd) = << "SSLRequest" >>) =>
         wire[fd] = << <<78>> >>
    /\ (Answered(fd) /\ KindsWritten(fd) = << "SSLRequest", "Startup" >>) =>
         wire[fd] = << <<78>> >>
                    \o ExpectedStartup(clients[SlotOf(fd)].backend_pid,
                                       clients[SlotOf(fd)].secret_key)

\* C15: a Terminate received after the handshake is answered with no frame,
\* and in the same turn the session leaves the table and its descriptor is
\* closed.
C15_TerminateClosesSession ==
  (HandledFrame("Terminate") /\ last.handshake) =>
    /\ last.sent = <<>>
    /\ last.fd \notin Live
    /\ ~sock[last.fd].open

\* C16: when the handler of a Parse reports an error, the session sends
\* ErrorResponse exactly once and stays open (so that the Bind, Describe and
\* Execute that follow are consumed without output and the next Sync is
\* answered with one ReadyForQuery).
C16_HandlerErrorKeepsSession ==
  (HandledFrame("Parse") /\ last.ret < 0 /\ AllSent) =>
    /\ Cardinality({ k \in 1 .. Len(last.sent) :
                       FrameType(last.sent[k]) = PqMsg_ErrorResponse }) = 1
    /\ last.fd \in Live
    /\ sock[last.fd].open

\* what the peer of fd received after the seven frames of its handshake
AfterHandshake(fd) == SubSeq(wire[fd], 8, Len(wire[fd]))

\* C17: for Parse("s", sql, {23}), Describe('S', "s"), Sync after a startup,
\* the frames sent are ParseComplete, ParameterDescription({23}),
\* RowDescription or NoData, ReadyForQuery, in this order.
C17_ParseDescribeSyncFrames ==
  \A fd \in FDs :
    (/\ Answered(fd)
     /\ KindsWritten(fd) = << "Startup", "Parse", "DescribeStatement", "Sync" >>) =>
      LET got == AfterHandshake(fd)
      IN  /\ Len(got) = 4
          /\ got[1] = Typed(PqMsg_ParseComplete, <<>>)
          /\ got[2] = Typed(116, <<0, 1>> \o htonl(INT4OID))
          /\ FrameType(got[3]) \in { 84, PqMsg_NoData }
          /\ FrameType(got[4]) = PqMsg_ReadyForQuery

\* the sessions of the table
Sessions == { i \in Slots : clients[i] # NULL }

\* C18: the table never holds more than max_connections sessions, and a
\* connection accepted while it holds max_connections is closed with no byte
\* sent to it, the table and every existing session left as they were.
C18_ConnectionCap ==
  [][ /\ Cardinality(Sessions') <= max_connections'
      /\ num_clients' = Cardinality(Sessions')
      /\ (accepts' = accepts + 1 /\ num_clients = max_connections) =>
           /\ last'.op = "add_client"
           /\ last'.ret = -1
           /\ ~sock'[last'.fd].open
           /\ wire'[last'.fd] = <<>>
           /\ clients' = clients
           /\ num_clients' = num_clients
           /\ \A fd \in FDs \ { last'.fd } :
                sock'[fd] = sock[fd] /\ wire'[fd] = wire[fd] ]_vars

\* C18 witness: a connection was turned away from a table of MaxConn sessions
C18_Witness ==
  /\ last.op = "add_client"
  /\ last.ret = -1
  /\ max_connections = MaxConn
  /\ num_clients = max_connections
  /\ Cardinality(Sessions) = MaxConn
  /\ ~sock[last.fd].open

\* C19: a call of a per-slot setter changes its own slot alone; an argument
\* that is not NULL is installed, NULL installs the handler pg_server_create
\* put in that slot; every one of the 12 slots holds a handler afterwards.
C19_SetterChangesOwnSlot ==
  last.op = "set" =>
    /\ \A slot \in DOMAIN last.before \ { last.slot } :
         callbacks[slot] = last.before[slot]
    /\ last.callback # NoCallback => callbacks[last.slot] = last.callback
    /\ last.callback = NoCallback => callbacks[last.slot] = PGCallbacks[last.slot]
    /\ Cardinality(DOMAIN callbacks) = 12
    /\ \A slot \in DOMAIN callbacks : callbacks[slot] # NoCallback

\* C19 witness: a NULL argument put the default back into a slot that held a
\* handler of the application
C19_Witness ==
  /\ last.op = "set"
  /\ last.callback = NoCallback
  /\ last.before[last.slot] \in AppCallbacks
  /\ callbacks = PGCallbacks

\* the frames the default handlers are to hand to send(), byte by byte
MinimalResponse(slot, query_frames) ==
  CASE slot = "password" -> << <<82, 0, 0, 0, 8, 0, 0, 0, 0>> >>
    [] slot = "parse" -> << <<49, 0, 0, 0, 4>> >>
    [] slot = "bind" -> << <<50, 0, 0, 0, 4>> >>
    [] slot = "describe" -> << <<110, 0, 0, 0, 4>> >>
    [] slot = "query" -> query_frames
    [] slot = "ssl_request" -> << <<78>> >>
    [] slot = "terminate" -> << >>

ListedSlots ==
  { "password", "parse", "bind", "describe", "query", "ssl_request", "terminate" }

DefaultsSend(query_frames) ==
  (last.op = "call" /\ last.slot \in ListedSlots
     /\ last.handler = PGCallbacks[last.slot]) =>
    /\ last.calls = MinimalResponse(last.slot, query_frames)
    /\ last.ret >= 0 => last.sent = MinimalResponse(last.slot, query_frames)
    /\ Len(last.sent) <= Len(last.calls)
    /\ \A i \in 1 .. Len(last.sent) : last.sent[i] = last.calls[i]

\* C20, as the spec words it: among the default handlers, query sends
\* EmptyQueryResponse followed by CommandComplete (password one
\* AuthenticationOk, parse one ParseComplete, bind one BindComplete, describe
\* one NoData, ssl_request the byte 'N', terminate nothing).
C20_Original_QueryAddsCommandComplete ==
  DefaultsSend(<< <<73, 0, 0, 0, 4>>, <<67, 0, 0, 0, 5, 0>> >>)

\* C20, amended: the default handlers hand to send() exactly: password one
\* AuthenticationOk, parse one ParseComplete, bind one BindComplete, describe
\* one NoData, query one EmptyQueryResponse and nothing after it, ssl_request
\* the byte 'N', terminate nothing; what reaches the peer is that, or a prefix
\* of it when send() fails.
C20_DefaultsSendMinimalResponses ==
  DefaultsSend(<< <<73, 0, 0, 0, 4>> >>)

\* C20 witness: the default query handler was called and its one frame sent
C20_Witness ==
  /\ last.op = "call"
  /\ last.slot = "query"
  /\ last.handler = "pg_default_query_callback"
  /\ last.ret = 5
  /\ last.sent = << <<PqMsg_EmptyQueryResponse, 0, 0, 0, 4>> >>
  /\ wire[last.fd] = last.sent

\* the payload u has a field of type t
HasField(u, t) ==
  \E k \in 1 .. Len(u) : u[k] = t /\ (k = 1 \/ u[k - 1] = 0)

\* C21: a message whose type byte is no known variant (here 'p') is answered
\* by the default unknown handler with one ErrorResponse whose fields S, C
\* and M are present and whose C field is 08P01, and with no other frame.
C21_UnknownTypeAnswered08P01 ==
  (HandledFrame("Password") /\ AllSent
     /\ callbacks["unknown"] = PGCallbacks["unknown"]) =>
    /\ Len(last.sent) = 1
    /\ IsErrorResponse(last.sent[1], SQLSTATE_08P01)
    /\ HasField(FramePayload(last.sent[1]), 83)
    /\ HasField(FramePayload(last.sent[1]), 77)

\* the ReadyForQuery frames among us, whole ones alone
ReadyForQueryFrames(us) ==
  { k \in 1 .. Len(us) : Len(us[k]) = 6 /\ FrameType(us[k]) = PqMsg_ReadyForQuery }

\* C22: every ReadyForQuery sent after the handshake, be it for a Query, a
\* Sync or an error, carries the transaction status the session has when the
\* frame is sent; the one sent for a Sync after a BEGIN carries 'T'.
C22_ReadyForQueryCarriesStatus ==
  (last.op = "handle" /\ last.handshake) =>
    \A k \in ReadyForQueryFrames(last.sent) :
      last.sent[k][6] = last.client.txn_status

\* the simple queries that begin with BEGIN, with COMMIT or ROLLBACK, and
\* with SELECT, INSERT, UPDATE or DELETE, by the kind of their frame
BeginKinds == { "Begin", "begin" }
EndKinds == { "Commit", "Rollback" }
PlainKinds == { "Query", "Insert", "Update", "Delete" }

\* C23: the transaction status of every session is I, T or E and starts at
\* I; a simple query whose first word is BEGIN leaves the session in T,
\* COMMIT and ROLLBACK leave it in I; each of these, and SELECT, INSERT,
\* UPDATE and DELETE, is answered with CommandComplete and then one
\* ReadyForQuery that carries the new status, as the last two frames.
C23_TransactionStatusTracked ==
  /\ \A i \in Slots :
       clients[i] # NULL =>
         clients[i].txn_status \in { PG_TXN_IDLE, PG_TXN_TRANSACTION, PG_TXN_FAILED }
  /\ (last.op = "add_client" /\ last.ret = 0) =>
       clients[SlotOf(last.fd)].txn_status = PG_TXN_IDLE
  /\ \A kind \in BeginKinds \cup EndKinds \cup PlainKinds :
       (HandledFrame(kind) /\ last.handshake /\ AllSent) =>
         /\ kind \in BeginKinds => last.client.txn_status = PG_TXN_TRANSACTION
         /\ kind \in EndKinds => last.client.txn_status = PG_TXN_IDLE
         /\ kind \in PlainKinds => last.client.txn_status = last.txn_before
         /\ Len(last.sent) >= 2
         /\ FrameType(last.sent[Len(last.sent) - 1]) = PqMsg_CommandComplete
         /\ last.sent[Len(last.sent)] =
              Typed(PqMsg_ReadyForQuery, << last.client.txn_status >>)
         /\ Cardinality(ReadyForQueryFrames(last.sent)) = 1

\* the same statement for the sessions of a server linked with pg_query.c,
\* where it holds
TransactionStatusTrackedByPgQuery == limits.build = "pg_query" => C23_TransactionStatusTracked


\* this step is a dispatch by pg_server_run to the session of last'.fd
DispatchStep ==
  /\ last'.op = "handle"
  /\ Len(trace'[last'.fd].dispatched) = Len(trace[last'.fd].dispatched) + 1

\* this step changes no session but that of fd, nor the listener, nor the
\* handler table
OthersUnchanged(fd) ==
  /\ \A i \in Slots : (clients[i] # NULL /\ clients[i].fd # fd) => clients'[i] = clients[i]
  /\ \A i \in Slots : clients[i] = NULL => clients'[i] = NULL
  /\ \A g \in FDs \ { fd } : sock'[g] = sock[g] /\ wire'[g] = wire[g]
  /\ server_fd' = server_fd
  /\ running' = running
  /\ callbacks' = callbacks
  /\ max_connections' = max_connections

EndOfStreamStep == last'.op = "eof" /\ last'.fd \in Live

\* C25, the step: when recv() on a session returns 0 or -1, the session is
\* removed from the table and its descriptor closed, nothing is sent on it
\* and nothing is dispatched, and the loop, the listener and every other
\* session are as before.
C25_EndOfStreamStep ==
  EndOfStreamStep =>
    LET fd == last'.fd
    IN  /\ last'.bytes_read <= 0
        /\ clients'[SlotOf(fd)] = NULL
        /\ ~sock'[fd].open
        /\ num_clients' = num_clients - 1
        /\ wire'[fd] = wire[fd]
        /\ trace'[fd] = trace[fd]
        /\ OthersUnchanged(fd)
        /\ running' /\ run_pc' = "while" /\ server_fd' = ListenFd

C26_WritesNeverDropped ==
  last.op = "handle" => \/ last.sent = last.calls
                        \/ ~sock[last.fd].open


\* the same for the handlers of pg_server_main.c, which call send() and
\* return -1 when it fails (send() either takes the whole frame or fails)
WritesNeverDroppedBySend ==
  (last.op = "handle" /\ ~(limits.build = "pg_query" /\ last.slot = "query"))
    => \/ last.sent = last.calls
       \/ ~sock[last.fd].open


\* the length word of a frame the peer wrote
DeclaredLength(bytes) == ntohl(bytes, 2)

\* C27, first half: a frame of declared length 4 (Sync) is dispatched to its
\* handler, which is handed an empty payload, and the session goes on.
DeclaredLength4Dispatched ==
  (HandledFrame("Sync") /\ last.handshake /\ AllSent) =>
    /\ DeclaredLength(F_Sync) = 4
    /\ last.slot = "sync"
    /\ last.ret >= 0
    /\ sock[last.fd].open

\* C27 as stated: a frame of declared length 4 is dispatched normally; a frame
\* whose declared length is below 4 or above the maximum frame size is not
\* dispatched to any handler, the session is sent ErrorResponse 08P01 and is
\* closed.
C27_DeclaredLengthChecked ==
  /\ DeclaredLength4Dispatched
  /\ \A kind \in { "QueryLength3", "QueryLengthOver" } :
       (HandledFrame(kind) /\ AllSent) =>
         /\ last.slot \notin CallbackSlots
         /\ RejectedWith(SQLSTATE_08P01)


\* this step reads a whole CancelRequest that is the first thing the
\* connection last'.fd wrote
CancelRequestStep ==
  /\ last'.op = "handle"
  /\ last'.fd \in Live
  /\ sock[last'.fd].rcvq # <<>>
  /\ Head(sock[last'.fd].rcvq).kind = "CancelRequest"
  /\ Head(sock[last'.fd].rcvq).whole
  /\ trace[last'.fd].dispatched = <<>>
  /\ last'.whole # <<>>

\* the live sessions, other than fd's own, that the CancelRequest at the head
\* of fd's queue names by process id and secret key
CancelTargets(fd) ==
  LET request == Head(sock[fd].rcvq).bytes
  IN  { g \in Live \ { fd } :
          /\ clients[SlotOf(g)].backend_pid = ntohl(request, 9)
          /\ clients[SlotOf(g)].secret_key = ntohl(request, 13) }

\* no session other than fd's changes in this step
SessionsUnchanged(fd) ==
  /\ \A i \in Slots : (clients[i] # NULL /\ clients[i].fd # fd) => clients'[i] = clients[i]
  /\ \A g \in FDs \ { fd } : sock'[g] = sock[g] /\ wire'[g] = wire[g]

\* C28, second half: a CancelRequest that names no live session changes no
\* session.
CancelWithoutMatchChangesNothing ==
  [][(CancelRequestStep /\ CancelTargets(last'.fd) = {})
       => SessionsUnchanged(last'.fd)]_vars

\* C28 as stated: when a CancelRequest(P, K) names a live session, the step
\* that handles it closes the cancelling connection and leaves a mark on the
\* named session (some field of its record changes: what its next handler
\* invocation would read to answer ErrorResponse 57014), other sessions being
\* untouched; when it names none, no session changes.
C28_CancelPath ==
  [][CancelRequestStep =>
       LET fd == last'.fd
           targets == CancelTargets(fd)
       IN  IF targets = {} THEN SessionsUnchanged(fd)
           ELSE /\ ~sock'[fd].open
                /\ clients'[SlotOf(fd)] = NULL
                /\ \A g \in targets : clients'[SlotOf(g)] # clients[SlotOf(g)]
                /\ \A g \in FDs \ ({ fd } \cup targets) :
                     sock'[g] = sock[g] /\ wire'[g] = wire[g]]_vars


\* C29: a PasswordMessage (type 'p') written by a client after its
\* StartupMessage was answered is handed to the handler registered in the
\* password slot, and to no other.
C29_PasswordReachesPasswordHandler ==
  (HandledFrame("Password") /\ last.handshake) => last.slot = "password"


\* the loop of pg_server_run is scheduled: a process that is not stopped by
\* its environment goes on to its next statement, and select() returns when
\* its tick of one second runs out at the latest
LiveSpec == Spec /\ WF_vars(RunWhile \/ RunFdSet \/ RunSelect \/ RunServe)

\* what a stopped server does not do: nothing is accepted, dispatched or
\* sent once the flag is down, the loop returns only with the flag down, and
\* at most one select() returns after the stop
StoppedServerServesNothing ==
  /\ [][(~running /\ run_pc # "returned") =>
          /\ accepts' = accepts
          /\ num_clients' = num_clients
          /\ wire' = wire
          /\ \A fd \in FDs : trace'[fd].dispatched = trace[fd].dispatched]_vars
  /\ [](run_pc = "returned" => ~running)
  /\ [](stopped_selects <= 1)

\* a stop that finds the loop inside select() or at its while test is
\* followed by the return of pg_server_run
StopInSelectReturns ==
  ((last.op = "stop" /\ last.at \in { "while", "in_select" }) ~> run_pc = "returned")

\* C30: once pg_server_stop has set running to false, pg_server_run returns;
\* from then on nothing is accepted and nothing dispatched or sent, the loop
\* returns only with the flag down, and after the stop at most one select()
\* returns before the loop has seen the flag.
C30_CooperativeShutdown ==
  /\ StoppedServerServesNothing
  /\ (~running ~> run_pc = "returned")


\* the user of a password check is one of default_users
KnownUser(user) ==
  user # NULL /\ \E i \in 1 .. Len(default_users) : default_users[i].username = user.chars

\* the password is the one stored for that user
RightPassword(user, password) ==
  /\ KnownUser(user)
  /\ password # NULL
  /\ \E i \in 1 .. Len(default_users) :
       /\ default_users[i].username = user.chars
       /\ default_users[i].password = password.chars

\* an AuthenticationOk frame is among the frames
HasAuthenticationOk(frames) ==
  \E k \in 1 .. Len(frames) : frames[k] = << PG_MSG_AUTHENTICATION, 0, 0, 0, 8, 0, 0, 0, 0 >>

\* C31 as stated: pg_handle_password sends AuthenticationOk and returns 0
\* only for a known user with that user's stored password; for an unknown
\* user, a wrong password or no password it sends ErrorResponse 28000, returns
\* -1 and sends no AuthenticationOk.
C31_PasswordAcceptedOnlyWhenRight ==
  last.op = "password" =>
    IF RightPassword(last.user, last.password)
    THEN HasAuthenticationOk(last.sent) /\ last.ret = 0
    ELSE /\ \E k \in 1 .. Len(last.sent) : IsErrorResponse(last.sent[k], SQLSTATE_28000)
         /\ last.ret = -1
         /\ ~HasAuthenticationOk(last.sent)

\* the same, for the calls that supply a password for a session with a user
PasswordCheckedWhenSupplied ==
  (last.op = "password" /\ last.user # NULL /\ last.password # NULL) =>
    IF RightPassword(last.user, last.password)
    THEN last.sent = << pg_send_auth_ok >> /\ last.ret = 0
    ELSE /\ Len(last.sent) = 1
         /\ IsErrorResponse(last.sent[1], SQLSTATE_28000)
         /\ last.ret = -1

\* C32 as stated: a known user asked for an MD5 password is sent one frame:
\* type 'R', sub-type 5, then the four bytes of the salt, and no frame of
\* another type.
C32_MD5RequestIsOneFrame ==
  (last.op = "password" /\ KnownUser(last.user) /\ last.password = NULL) =>
    /\ last.sent # <<>>
    /\ last.sent[1] = << PG_MSG_AUTHENTICATION >> \o htonl(12) \o htonl(PG_AUTH_MD5) \o last.salt
    /\ \A k \in 1 .. Len(last.sent) : FrameType(last.sent[k]) = PG_MSG_AUTHENTICATION
    /\ \A k \in 2 .. Len(last.sent) : last.sent[k] = pg_send_auth_ok


\* what pg_query.c's handler answers to a query it does not support:
\* ErrorResponse (S=ERROR, C=42601), then one ReadyForQuery with the status
\* the session had
UnsupportedQueryFrames ==
  (HandledFrame("Create") /\ limits.build = "pg_query" /\ last.handshake /\ AllSent) =>
    /\ Len(last.sent) = 2
    /\ IsErrorResponse(last.sent[1], SQLSTATE_42601)
    /\ Contains(FramePayload(last.sent[1]), << PG_ERR_SEVERITY >> \o S_ERROR \o << 0 >>)
    /\ last.sent[2] = pg_send_ready_for_query(last.txn_before)
    /\ last.client.txn_status = last.txn_before

\* C33 as stated: a query that pg_query.c's handler does not support is
\* answered ErrorResponse (S=ERROR, C=42601) and exactly one ReadyForQuery
\* with the unchanged transaction status, txn_status is unchanged, and the
\* session stays open for the next query.
C33_UnsupportedQueryKeepsSession ==
  /\ UnsupportedQueryFrames
  /\ (HandledFrame("Create") /\ limits.build = "pg_query" /\ last.handshake /\ AllSent) =>
       /\ last.ret >= 0
       /\ last.fd \in Live
       /\ sock[last.fd].open


\* C37 as stated: when the signal handler runs pg_server_stop in the middle
\* of an iteration of pg_server_run, the loop does not afterwards use a
\* session that stop has freed, nor call pg_server_remove_client for it, and
\* it neither selects nor accepts on the listener that stop has closed.
C37_NoUseAfterStop ==
  /\ last.op = "stop_in_handler" => ~last.used_freed /\ ~last.remove_called
  /\ (last.op \in { "fd_set", "serve" } /\ ~running) => last.outcome \notin { "bit", "set", "abort" }


\* the number of sessions in the clients table
Occupied == Cardinality({ i \in Slots : clients[i] # NULL })

\* C34: after every pg_server_add_client, pg_server_remove_client and
\* pg_server_stop, num_clients is the number of non-NULL entries of the
\* clients table and lies in 0 .. max_connections; removing a client that is
\* not in the table returns -1 and changes neither the table nor the count.
C34_TableCount ==
  /\ num_clients = Occupied
  /\ 0 <= num_clients /\ num_clients <= max_connections
  /\ (last.op = "stop_in_handler" /\ last.remove_called)
       => /\ last.remove_ret = -1
          /\ clients = last.table_before
          /\ num_clients = last.count_before

\* a stop that emptied a table of two sessions, followed by the removal of one
\* of them, which is no longer in the table
C34_Witness ==
  /\ last.op = "stop_in_handler" /\ last.remove_called /\ last.remove_ret = -1
  /\ accepts >= 2 /\ num_clients = 0


\* the slots pg_server_handle_client calls through
DispatchSlots ==
  { "startup", "query", "parse", "bind", "execute", "describe", "sync",
    "terminate", "unknown" }

\* C35 as stated: after any handler registrations, pg_server_set_callbacks
\* with NULL members and pg_server_set_logging_callbacks included, every
\* slot the dispatcher can call is non-null, and no dispatch calls a null
\* handler.
C35_NoNullHandler ==
  /\ \A slot \in DispatchSlots : callbacks[slot] # NoCallback
  /\ last.op # "handle_null"

\* pg_server_set_logging_callbacks leaves no slot null
LoggingLeavesNoNull ==
  last.op = "set_logging" => \A slot \in CallbackSlots : callbacks[slot] # NoCallback


\* what the default handler of the slot does with the arguments the logging
\* wrapper of the last dispatch was given, for some number of send() calls
\* that go through
DefaultDoesTheSame ==
  \E nok \in 0 .. Len(last.calls) :
    LET d == Handler(PGCallbacks[last.slot], last.client, nok)
    IN  /\ d.calls = last.calls
        /\ d.ret = last.ret
        /\ Delivered(d, nok) = last.sent

C40_WitnessKept ==
  /\ last.op = "handle" /\ callbacks = LoggingCallbacks
  /\ last.ret >= 0 /\ last.sent # <<>> /\ last.fd \in Live


\* C36: when pg_server_stop has returned, running is false, the clients
\* table is empty with num_clients = 0 and server_fd = -1; the call that
\* pg_server_destroy makes after a signal-driven stop does not close the
\* listener again, closes no descriptor that is not open and frees as many
\* sessions as it closes descriptors: nothing is closed or freed twice.
C36_StopIdempotent ==
  /\ last.op \in { "stop", "stop_in_handler", "destroy" }
       => /\ ~running
          /\ \A i \in Slots : clients[i] = NULL
          /\ num_clients = 0
          /\ server_fd = -1
  /\ last.op = "destroy"
       => /\ ~last.listener_closed
          /\ last.closed \subseteq last.open_before
          /\ Cardinality(last.freed) = Cardinality(last.closed)

\* pg_server_destroy after a signal stopped a server that held sessions
C36_Witness ==
  /\ last.op = "destroy" /\ accepts >= 2
  /\ last.closed = {} /\ last.freed = {}

\* pg_server_destroy that finds a session accepted while the signal arrived
DestroyClosesLateSession ==
  last.op = "destroy" /\ last.closed # {}


\* the default startup handler ran on the bytes of the last dispatch
StartupParsed ==
  /\ last.op = "handle" /\ last.slot = "startup"
  /\ callbacks["startup"] # "app_error_callback"

\* after a whole startup packet that ends with the empty key, user and
\* database hold the values the packet gives for those keys
StartupValuesKept ==
  (StartupParsed /\ HandledFrame("Startup"))
    => /\ last.client.user = Str(S_u)
       /\ last.client.database = Str(S_u)

\* C38 as stated: pg_default_startup_callback reads no byte at or past
\* buffer + length, for a startup payload that ends with the empty-key
\* terminator and for one that has none, and user and database hold the
\* values given for those keys.
C38_StartupReadsInBounds ==
  /\ StartupParsed => ~last.oob
  /\ StartupValuesKept

\* a startup whose bytes were cut before the terminator and whose strings all
\* end inside the bytes received
StartupCutInBounds ==
  StartupParsed /\ ~HandledFrame("Startup") /\ ~last.oob


ReadDone == last.op = "read_message"

\* the type byte, the four bytes of the length and the whole payload of a
\* frame of at least 4 declared bytes were read
ReadWhole ==
  /\ last.r1 = 1 /\ last.r2 = 4
  /\ last.length >= 4 /\ last.r3 = last.length - 4

\* no byte of pg_read_message is written outside buffer[0 .. buffer_size)
ReadWritesInBounds ==
  ReadDone => DOMAIN last.written \subseteq 0 .. (last.buffer_size - 1)

\* on success: length + 1 is returned, and buffer holds the type byte, the
\* big-endian length and the length - 4 payload bytes of the stream
ReadSuccessHoldsFrame ==
  (ReadDone /\ last.ret # -1)
    => /\ last.ret = last.length + 1
       /\ DOMAIN last.written = 0 .. last.length
       /\ \A k \in DOMAIN last.written : last.written[k] = last.stream[k + 1]

\* C39 as stated: pg_read_message writes nothing outside
\* buffer[0 .. buffer_size) whatever length is declared; it returns -1
\* whenever the type, the length or the whole payload could not be read; on
\* success it returns length + 1 and buffer holds the type byte, the
\* big-endian length and exactly length - 4 payload bytes.
C39_ReadMessageSafe ==
  /\ ReadWritesInBounds
  /\ (ReadDone /\ ~ReadWhole) => last.ret = -1
  /\ ReadSuccessHoldsFrame

\* with a length that was read whole and is not below 4, the three hold
ReadOfDeclaredFrame ==
  (ReadDone /\ last.r2 \in { 0, 4 } /\ (last.r2 = 4 => last.length >= 4))
    => /\ DOMAIN last.written \subseteq 0 .. (last.buffer_size - 1)
       /\ (~ReadWhole => last.ret = -1)
       /\ (last.ret # -1 =>
             /\ last.ret = last.length + 1
             /\ DOMAIN last.written = 0 .. last.length
             /\ \A k \in DOMAIN last.written : last.written[k] = last.stream[k + 1])

\* a whole frame with a payload was read into a buffer that holds it
ReadSucceeded ==
  ReadDone /\ last.ret = 14 /\ last.buffer_size = 16

=============================================================================
